----------------------- MODULE MachineLifecycle_proofs -----------------------
(***************************************************************************)
(* A machine that a command started and forwarded stays reachable, for any *)
(* machines, ports and commands and each driver of the utility, as far as  *)
(* the utility has not lost its forwards (raced, lapsed).                  *)
(*                                                                         *)
(* A step of a command does something to the world (machines, forwards)    *)
(* and something to the process.  The world's part needs that a machine    *)
(* is started only where it exists, which is a matter of what the process  *)
(* has left to do, and that a process about to forward a port has found it *)
(* free and nobody else has taken it since.                                *)
(*                                                                         *)
(* What a command has done when it reports success is proved on top of     *)
(* that, from the order in which the middleware can be left to do.         *)
(***************************************************************************)
EXTENDS MachineLifecycle, Integers, TLAPS

USE DEF utilityVars

Elements(s) == {s[i] : i \in 1 .. Len(s)}

Rest(s) == {s[i] : i \in 2 .. Len(s)}

Todo(m) == proc[m].todo

Types ==
  /\ workload \in Workloads
  /\ vm \in [Machines -> Vm]
  /\ fwds \in [Ports -> Machines \cup {None}] /\ entry \in [Ports -> Entry]
  /\ proc \in [Machines -> Process]

\* Only a machine that exists is on or starting; a forwarded one is on.
PowerInv ==
  \A m \in Machines :
    /\ vm[m].power # "off" => vm[m].created
    /\ vm[m].port # None => IsOn(m)

\* The middleware that leads to a start, and that which ends a machine.
Starts == {"Running?", "Suspended?", "Boot"}
Ends == {"Destroy", "Delete"}

\* Who is going to start a machine has it, and is not going to delete it.
StartInv ==
  \A m \in Machines :
    Elements(Todo(m)) \cap Starts # {} =>
      /\ vm[m].created \/ At(m, "Import")
      /\ Elements(Todo(m)) \cap Ends = {}

\* The request is made as soon as the ports in use have been looked at.
NextInv == \A m \in Machines : "forward_ports" \notin Rest(Todo(m))

\* What was found free is free, but for a race.
FreePort(m) == proc[m].port \in Ports \ raced => fwds[proc[m].port] \in {None, m}

FreeInv == \A m \in Machines : At(m, "forward_ports") => FreePort(m)

\* A reachable machine is on record as the one that has the port, which is why
\* no prune takes it away.
Reachable ==
  \A m \in Machines :
    vm[m].port # None /\ vm[m].port \notin raced /\ m \notin lapsed =>
      fwds[vm[m].port] = m /\ entry[vm[m].port] # "managed"

IInv == Types /\ PowerInv /\ StartInv /\ NextInv /\ FreeInv /\ Reachable

-----------------------------------------------------------------------------
(* Processes.                                                              *)

\* What is left after a middleware is its branch and what was left before.
LEMMA BranchElements ==
  ASSUME NEW s \in Seq(Middleware), NEW t \in Seq(Middleware), t # <<>>
  PROVE  /\ s \o Tail(t) \in Seq(Middleware)
         /\ Elements(s \o Tail(t)) \subseteq Elements(s) \cup Rest(t)
         /\ Rest(s \o Tail(t)) \subseteq Rest(s) \cup Rest(t)
         /\ Rest(t) \subseteq Elements(t) /\ Head(t) \in Elements(t)
         /\ s = <<>> => s \o Tail(t) = Tail(t)
<1> DEFINE u == s \o Tail(t)
<1>1. /\ Tail(t) \in Seq(Middleware) /\ Len(Tail(t)) = Len(t) - 1 /\ Len(t) \in Nat \ {0}
      /\ \A i \in 1 .. Len(t) - 1 : Tail(t)[i] = t[i + 1]
  OBVIOUS
<1>2. /\ u \in Seq(Middleware) /\ Len(u) = Len(s) + Len(t) - 1 /\ Len(s) \in Nat
      /\ \A i \in 1 .. Len(u) : u[i] = IF i <= Len(s) THEN s[i] ELSE Tail(t)[i - Len(s)]
  BY <1>1
<1>3. ASSUME NEW i \in 1 .. Len(u), i > Len(s) PROVE u[i] \in Rest(t)
  <2>1. u[i] = t[i - Len(s) + 1] /\ i - Len(s) + 1 \in 2 .. Len(t)
    BY <1>1, <1>2, <1>3
  <2> QED BY <2>1 DEF Rest
<1>4. Elements(u) \subseteq Elements(s) \cup Rest(t)
  BY <1>2, <1>3 DEF Elements
<1>5. Rest(u) \subseteq Rest(s) \cup Rest(t)
  BY <1>2, <1>3 DEF Rest
<1>6. Rest(t) \subseteq Elements(t) /\ Head(t) \in Elements(t)
  BY <1>1 DEF Rest, Elements
<1> QED BY <1>2, <1>4, <1>5, <1>6

\* Head of a branch is its first middleware; what follows none is no request.
LEMMA HeadIsFirst ==
  ASSUME NEW s \in Seq(Middleware), s # <<>>
  PROVE  Head(s) = s[1] /\ Head(s) \in Elements(s) /\ (Elements(s) \subseteq Rest(s) \cup {s[1]})
BY DEF Elements, Rest

\* The process of m goes on to what steps says, and keeps to its purpose.
Goes(m, x, steps) ==
  /\ At(m, x)
  /\ proc' = [proc EXCEPT ![m] = proc'[m]]
  /\ proc'[m] \in Process
  /\ proc'[m].todo = steps \o Tail(Todo(m))

\* A branch that neither starts nor ends a machine unless it belongs to one
\* that does, and that has no request behind its first place.
Fits(x, steps) ==
  /\ steps \in Seq(Middleware)
  /\ Elements(steps) \cap Starts # {} => x \in Starts
  /\ Elements(steps) \cap Ends # {} => x \in Ends
  /\ "forward_ports" \notin Rest(steps)

\* What the world's part of a step leaves to the process of a machine.
Keeps(m) ==
  /\ \A n \in Machines \ {m} : vm'[n].created = vm[n].created
  /\ vm[m].created /\ ~At(m, "Delete") => vm'[m].created

StartKept == StartInv' /\ NextInv'

\* A middleware that ends goes on with its branch.
LEMMA GoesStep ==
  ASSUME Types, StartInv, NextInv, NEW m \in Machines, NEW x, NEW steps,
         Goes(m, x, steps), Fits(x, steps), Keeps(m), x = "Import" => vm'[m].created
  PROVE  StartKept
<1> DEFINE t == Todo(m)
           u == steps \o Tail(t)
<1>1. t \in Seq(Middleware) /\ t # <<>> /\ Head(t) = x /\ steps \in Seq(Middleware)
  BY DEF Types, Process, Goes, At, Todo, Fits
<1>2. /\ Elements(u) \subseteq Elements(steps) \cup Rest(t)
      /\ Rest(u) \subseteq Rest(steps) \cup Rest(t)
      /\ Rest(t) \subseteq Elements(t) /\ x \in Elements(t)
  BY <1>1, BranchElements
<1>3. Todo(m)' = u /\ \A n \in Machines \ {m} : proc'[n] = proc[n]
  BY DEF Goes, Todo, Types
<1>4. ASSUME Elements(u) \cap Starts # {} PROVE vm'[m].created /\ Elements(u) \cap Ends = {}
  <2>1. Elements(t) \cap Starts # {}
    BY <1>2, <1>4 DEF Fits
  <2>2. (vm[m].created \/ At(m, "Import")) /\ Elements(t) \cap Ends = {}
    BY <2>1 DEF StartInv
  <2>3. x \notin Ends /\ ~At(m, "Delete")
    BY <1>1, <1>2, <2>2 DEF Ends, At, Todo
  <2>4. Elements(u) \cap Ends = {}
    BY <1>2, <2>2, <2>3 DEF Fits
  <2>5. At(m, "Import") => x = "Import"
    BY <1>1 DEF At, Todo
  <2> QED BY <2>2, <2>3, <2>4, <2>5 DEF Keeps
<1>5. StartInv'
  <2> SUFFICES ASSUME NEW n \in Machines, Elements(Todo(n)') \cap Starts # {}
               PROVE  (vm'[n].created \/ At(n, "Import")') /\ Elements(Todo(n)') \cap Ends = {}
    BY DEF StartInv
  <2>1. CASE n = m
    BY <1>3, <1>4, <2>1
  <2>2. CASE n # m
    BY <1>3, <2>2 DEF StartInv, Keeps, Todo, At
  <2> QED BY <2>1, <2>2
<1>6. NextInv'
  BY <1>2, <1>3 DEF NextInv, Fits, Todo
<1> QED BY <1>5, <1>6 DEF StartKept

\* A process that begins anew, with steps of its own or with none.
LEMMA RestartStep ==
  ASSUME Types, StartInv, NextInv, NEW m \in Machines, NEW p \in Process,
         proc' = [proc EXCEPT ![m] = p], Keeps(m),
         "forward_ports" \notin Rest(p.todo),
         Elements(p.todo) \cap Starts # {} =>
           (vm'[m].created \/ (p.todo # <<>> /\ Head(p.todo) = "Import")) /\ Elements(p.todo) \cap Ends = {}
  PROVE  StartKept
<1>1. proc'[m] = p /\ \A n \in Machines \ {m} : proc'[n] = proc[n]
  BY DEF Types
<1>2. StartInv'
  BY <1>1 DEF StartInv, Keeps, Todo, At
<1>3. NextInv'
  BY <1>1 DEF NextInv, Todo
<1> QED BY <1>2, <1>3 DEF StartKept

-----------------------------------------------------------------------------
(* The world.                                                              *)

WorldKept ==
  /\ vm' \in [Machines -> Vm] /\ fwds' \in [Ports -> Machines \cup {None}]
  /\ entry' \in [Ports -> Entry]
  /\ PowerInv' /\ Reachable'
  /\ \A n \in Machines :
       At(n, "forward_ports") /\ proc[n].port \in Ports \ raced' => fwds'[proc[n].port] \in {None, n}

\* A machine changes, but not to another port.
LEMMA MachineStep ==
  ASSUME IInv, NEW m \in Machines, NEW v \in Vm,
         vm' = [vm EXCEPT ![m] = v], UNCHANGED utilityVars,
         v.power # "off" => v.created,
         v.port # None => v.power \in {"on", "late"} /\ v.port = vm[m].port
  PROVE  WorldKept
<1>1. /\ vm' \in [Machines -> Vm] /\ fwds' \in [Ports -> Machines \cup {None}]
      /\ entry' \in [Ports -> Entry]
  BY DEF IInv, Types
<1>2. vm'[m] = v /\ \A n \in Machines \ {m} : vm'[n] = vm[n]
  BY DEF IInv, Types
<1>3. PowerInv'
  BY <1>2 DEF IInv, PowerInv, IsOn
<1>4. Reachable'
  BY <1>2 DEF IInv, Reachable
<1> QED BY <1>1, <1>3, <1>4 DEF WorldKept, IInv, FreeInv, FreePort

\* Nothing changes.
LEMMA QuietStep ==
  ASSUME IInv, UNCHANGED <<vm, utilityVars>>
  PROVE  WorldKept
BY DEF IInv, Types, WorldKept, PowerInv, IsOn, Reachable, FreeInv, FreePort

\* What the workload may be.
LEMMA WorkloadType ==
  ASSUME workload \in Workloads
  PROVE  /\ driver \in Driver /\ workload.ports \subseteq Ports /\ "plain" \in Entry
         /\ \A m \in Machines : workload.commands[m] \subseteq Command
<1>1. workload \in [driver: Driver, commands: [Machines -> SUBSET Command], ports: SUBSET Ports]
  BY CommandsAssumption
<1>2. /\ driver \in Driver /\ workload.ports \subseteq Ports
      /\ \A m \in Machines : workload.commands[m] \subseteq Command
  BY <1>1 DEF driver
<1>3. "plain" \in Entry
  BY <1>2 DEF Entry, Driver
<1> QED BY <1>2, <1>3

\* The networking file is lost: no machine but those that the request forwards
\* is promised a port any more.
LEMMA LostStep ==
  ASSUME IInv, NEW left \in [Ports -> Machines \cup {None}], NEW lines, NEW relieved,
         FileIsLost(left, lines, relieved), UNCHANGED vm
  PROVE  /\ fwds' = left /\ entry' \in [Ports -> Entry]
         /\ \A p \in Ports : entry'[p] \in {"plain", "once"}
         /\ \A n \in Machines \ relieved : vm[n].port # None => n \in lapsed'
BY DEF FileIsLost, Entry, Forwarded

\* When all forwards are lost, so is every promise.
LEMMA NothingLeft ==
  ASSUME IInv, NEW lines, FileIsLost(NoFwds, lines, {}), UNCHANGED <<vm, raced>>
  PROVE  WorldKept
<1>1. NoFwds \in [Ports -> Machines \cup {None}] /\ \A p \in Ports : NoFwds[p] = None
  BY DEF NoFwds
<1>2. /\ fwds' = NoFwds /\ entry' \in [Ports -> Entry]
      /\ \A n \in Machines : vm[n].port # None => n \in lapsed'
  BY <1>1, LostStep
<1>3. vm' \in [Machines -> Vm] /\ PowerInv'
  BY DEF IInv, Types, PowerInv, IsOn
<1>4. Reachable'
  BY <1>2 DEF Reachable
<1> QED BY <1>1, <1>2, <1>3, <1>4 DEF WorldKept

\* A prune spares the machines that are on and on record.
LEMMA PruneStep ==
  ASSUME IInv, NEW done, Pruning(done)
  PROVE  WorldKept
<1>1. PICK spared \in SUBSET {n \in Machines : vm[n].created} :
        LET unused == Unused({n \in Machines : State(n) = "running"} \cup spared)
        IN \/ \E ports \in SUBSET unused :
                (done \/ driver = "simple" => ports = unused) /\ Deleting(ports)
           \/ \E lines \in {{}, unused} : FileIsLost(NoFwds, lines, {})
  BY DEF Pruning
<1> DEFINE unused == Unused({n \in Machines : State(n) = "running"} \cup spared)
<1>2. UNCHANGED <<vm, raced>>
  BY DEF Pruning
<1>3. CASE \E lines \in {{}, unused} : FileIsLost(NoFwds, lines, {})
  BY <1>2, <1>3, NothingLeft
<1>4. ASSUME NEW ports \in SUBSET unused, Deleting(ports) PROVE WorldKept
  <2>1. /\ fwds' \in [Ports -> Machines \cup {None}] /\ \A p \in Ports : fwds'[p] \in {fwds[p], None}
        /\ \A p \in Ports \ ports : fwds'[p] = fwds[p] /\ entry'[p] = entry[p]
    BY <1>4 DEF Deleting, IInv, Types
  <2>2. entry' \in [Ports -> Entry]
    <3>1. "plain" \in Entry /\ entry \in [Ports -> Entry]
      BY WorkloadType DEF IInv, Types
    <3> QED BY <1>4, <3>1 DEF Deleting
  <2>3. PowerInv'
    BY <1>2 DEF IInv, PowerInv, IsOn
  <2>4. Reachable'
    <3> SUFFICES ASSUME NEW n \in Machines, vm[n].port # None, vm[n].port \notin raced, n \notin lapsed
                 PROVE  fwds'[vm[n].port] = n /\ entry'[vm[n].port] # "managed"
      BY <1>2, <1>4 DEF Reachable, Deleting
    <3>1. vm[n].port \in Ports /\ fwds[vm[n].port] = n /\ entry[vm[n].port] # "managed"
      BY DEF IInv, Types, Vm, Reachable
    <3>2. vm[n].created /\ IsOn(n)
      BY DEF IInv, PowerInv, IsOn
    <3>3. State(n) = "running"
      BY <3>2 DEF State
    <3>4. vm[n].port \notin ports
      BY <1>4, <3>1, <3>3 DEF Unused
    <3> QED BY <2>1, <3>1, <3>4
  <2> QED BY <1>2, <2>1, <2>2, <2>3, <2>4 DEF WorldKept, IInv, Types, FreeInv, FreePort
<1> QED BY <1>1, <1>3, <1>4

\* A device of the simple driver costs the forwards or leaves them; under the
\* vmrest driver no machine is promised its port any more.
LEMMA DeviceStep ==
  ASSUME IInv, AddingDevice
  PROVE  WorldKept
<1>1. UNCHANGED <<vm, raced>>
  BY DEF AddingDevice
<1>2. CASE FileIsLost(NoFwds, {}, {})
  BY <1>1, <1>2, NothingLeft
<1>3. CASE ~FileIsLost(NoFwds, {}, {})
  <2>1. /\ fwds' \in {fwds, NoFwds} /\ entry' \in [Ports -> Entry]
        /\ lapsed' = lapsed \cup Forwarded
    BY <1>3 DEF AddingDevice
  <2>2. /\ fwds' \in [Ports -> Machines \cup {None}]
        /\ \A p \in Ports : fwds'[p] \in {fwds[p], None}
    BY <2>1 DEF NoFwds, IInv, Types
  <2>3. PowerInv'
    BY <1>1 DEF IInv, PowerInv, IsOn
  <2>4. Reachable'
    BY <1>1, <2>1 DEF Reachable, Forwarded
  <2> QED BY <1>1, <2>1, <2>2, <2>3, <2>4 DEF WorldKept, IInv, Types, FreeInv, FreePort
<1> QED BY <1>2, <1>3

\* A request forwards a port: nobody else's, but for a race.
LEMMA ForwardStep ==
  ASSUME IInv, NEW m \in Machines, NEW done \in BOOLEAN, At(m, "forward_ports"), Forwarding(m, done),
         IF done THEN vm' = [vm EXCEPT ![m].port = IF IsOn(m) THEN proc[m].port ELSE None]
                 ELSE UNCHANGED vm
  PROVE  WorldKept
<1> DEFINE p == proc[m].port
           relieved == IF done THEN {m} ELSE {}
<1>1. p \in Ports \cup {None} /\ raced \subseteq raced'
  BY DEF IInv, Types, Process, Forwarding
<1>2. vm' \in [Machines -> Vm] /\ PowerInv'
  <2>1. CASE ~done
    BY <2>1 DEF IInv, Types, PowerInv, IsOn
  <2>2. CASE done
    <3>1. vm' \in [Machines -> Vm]
      BY <1>1, <2>2 DEF IInv, Types, Vm
    <3>2. /\ vm'[m].power = vm[m].power /\ vm'[m].created = vm[m].created
          /\ vm'[m].port = IF IsOn(m) THEN p ELSE None
          /\ \A n \in Machines \ {m} : vm'[n] = vm[n]
      BY <2>2 DEF IInv, Types, Vm
    <3> QED BY <3>1, <3>2 DEF IInv, PowerInv, IsOn
  <2> QED BY <2>1, <2>2
<1>3. /\ \A n \in Machines : n # m => vm'[n] = vm[n]
      /\ vm'[m].port \in IF done THEN {p, None} ELSE {vm[m].port}
      /\ \A n \in Machines : vm'[n].port \in Ports \cup {None}
  BY <1>1, <1>2 DEF IInv, Types, Vm
<1>4. /\ fwds' \in [Ports -> Machines \cup {None}] /\ entry' \in [Ports -> Entry]
      /\ p \in Ports => fwds'[p] = m /\ (done => entry'[p] # "managed")
      /\ \A q \in Ports \ {p} : fwds'[q] \in {fwds[q], None}
      /\ \/ /\ \A q \in Ports \ {p} : fwds'[q] = fwds[q] /\ entry'[q] = entry[q]
            /\ \/ lapsed \ relieved \subseteq lapsed' /\ (p \in Ports => entry'[p] # "managed")
               \/ ~done /\ lapsed' = lapsed \cup {m}
         \/ \A n \in Machines \ relieved : n \in lapsed' \/ vm[n].port = None
  <2>1. CASE FileIsLost([NoFwds EXCEPT ![p] = m], {p}, relieved)
    <3> DEFINE left == [NoFwds EXCEPT ![p] = m]
    <3>1. /\ left \in [Ports -> Machines \cup {None}] /\ (p \in Ports => left[p] = m)
          /\ \A q \in Ports \ {p} : left[q] = None
      BY DEF NoFwds
    <3>2. /\ fwds' = left /\ entry' \in [Ports -> Entry]
          /\ \A q \in Ports : entry'[q] \in {"plain", "once"}
          /\ \A n \in Machines \ relieved : n \in lapsed' \/ vm[n].port = None
      BY <2>1 DEF FileIsLost, Entry, Forwarded, NoFwds
    <3> HIDE DEF left
    <3> QED BY <3>1, <3>2
  <2>2. CASE ~FileIsLost([NoFwds EXCEPT ![p] = m], {p}, relieved)
    <3>1. /\ fwds' = [fwds EXCEPT ![p] = m]
          /\ \/ entry' = [entry EXCEPT ![p] = Added(p)] /\ lapsed' = lapsed \ relieved
             \/ ~done /\ driver # "simple" /\ entry' = [entry EXCEPT ![p] = "managed"]
                /\ lapsed' = lapsed \cup {m}
      BY <2>2 DEF Forwarding
    <3>2. /\ fwds \in [Ports -> Machines \cup {None}] /\ entry \in [Ports -> Entry]
          /\ workload \in Workloads
      BY DEF IInv, Types
    <3>3. Added(p) \in Entry /\ Added(p) # "managed" /\ (driver # "simple" => "managed" \in Entry)
      <4>1. driver \in Driver
        BY <3>2, WorkloadType
      <4> QED BY <4>1 DEF Added, Entry, Driver
    <3> HIDE DEF relieved
    <3>4. fwds' \in [Ports -> Machines \cup {None}] /\ entry' \in [Ports -> Entry]
      BY <3>1, <3>2, <3>3
    <3>5. p \in Ports => fwds'[p] = m /\ (entry'[p] = Added(p) \/ ~done)
      BY <3>1, <3>2
    <3>6. \A q \in Ports \ {p} : fwds'[q] = fwds[q] /\ entry'[q] = entry[q]
      BY <3>1, <3>2
    <3>7. \/ lapsed \ relieved \subseteq lapsed' /\ (p \in Ports => entry'[p] # "managed")
          \/ ~done /\ lapsed' = lapsed \cup {m}
      BY <3>1, <3>2, <3>3
    <3> QED BY <3>3, <3>4, <3>5, <3>6, <3>7
  <2> QED BY <2>1, <2>2
<1> HIDE DEF p
<1>5. Reachable'
  <2> SUFFICES ASSUME NEW n \in Machines, vm'[n].port # None, vm'[n].port \notin raced', n \notin lapsed'
               PROVE  fwds'[vm'[n].port] = n /\ entry'[vm'[n].port] # "managed"
    BY DEF Reachable
  <2>1. vm'[n].port \in Ports
    BY <1>3
  <2>2. CASE n = m /\ done
    BY <1>3, <1>4, <2>1, <2>2
  <2>3. CASE ~(n = m /\ done)
    <3>1. vm'[n].port = vm[n].port /\ n \notin relieved
      BY <1>3, <2>3
    <3>2. /\ \A q \in Ports \ {p} : fwds'[q] = fwds[q] /\ entry'[q] = entry[q]
          /\ \/ lapsed \ relieved \subseteq lapsed' /\ (p \in Ports => entry'[p] # "managed")
             \/ ~done /\ lapsed' = lapsed \cup {m}
      BY <1>4, <3>1
    <3>3. n \notin lapsed
      BY <3>1, <3>2
    <3>4. fwds[vm[n].port] = n /\ entry[vm[n].port] # "managed"
      BY <1>1, <3>1, <3>3 DEF IInv, Reachable
    <3>5. CASE vm[n].port # p
      BY <2>1, <3>1, <3>2, <3>4, <3>5
    <3>6. CASE vm[n].port = p
      <4>1. p \in Ports /\ p \notin raced
        BY <1>1, <2>1, <3>1, <3>6
      <4>2. fwds[p] \in {None, m}
        BY <4>1 DEF IInv, FreeInv, FreePort, p
      <4>3. n = m
        BY <3>4, <3>6, <4>2, CommandsAssumption
      <4> QED BY <1>4, <3>1, <3>2, <3>6, <4>1, <4>3
    <3> QED BY <3>5, <3>6
  <2> QED BY <2>2, <2>3
<1>6. ASSUME NEW n \in Machines, At(n, "forward_ports"), proc[n].port \in Ports \ raced'
      PROVE  fwds'[proc[n].port] \in {None, n}
  <2>1. CASE n = m
    BY <1>4, <1>6, <2>1 DEF p
  <2>2. CASE n # m /\ proc[n].port = p
    <3>1. FoundFreeByOther(m, p)
      BY <1>6, <2>2 DEF FoundFreeByOther
    <3> QED BY <1>6, <2>2, <3>1 DEF Forwarding, p
  <2>3. CASE proc[n].port # p
    <3>1. fwds[proc[n].port] \in {None, n}
      BY <1>1, <1>6 DEF IInv, FreeInv, FreePort
    <3> QED BY <1>4, <1>6, <2>3, <3>1
  <2> QED BY <2>1, <2>2, <2>3
<1> QED BY <1>2, <1>4, <1>5, <1>6 DEF WorldKept

\* What a middleware does to its machine, whether it ends or is cut short.
LEMMA EffectStep ==
  ASSUME IInv, NEW m \in Machines,
         Discarding(m) \/ Stopping(m) \/ Suspending(m) \/ Reverting(m)
  PROVE  WorldKept /\ Keeps(m)
<1>1. PICK v \in Vm :
        /\ vm' = [vm EXCEPT ![m] = v] /\ UNCHANGED utilityVars
        /\ v.created = vm[m].created
        /\ v.power # "off" => v.power = vm[m].power
        /\ v.port # None => v.port = vm[m].port /\ v.power = vm[m].power
  <2>1. CASE Discarding(m)
    <3>1. [vm[m] EXCEPT !.vmss = FALSE] \in Vm
      BY DEF IInv, Types, Vm
    <3> QED BY <2>1, <3>1 DEF Discarding, IInv, Types, Vm
  <2>2. CASE Stopping(m)
    <3>1. vm[m] \in Vm /\ Off(vm[m]) \in Vm
      BY DEF IInv, Types, Vm, Off
    <3> QED BY <2>2, <3>1 DEF Stopping, Off, IInv, Types, Vm
  <2>3. CASE Suspending(m)
    <3>1. vm[m] \in Vm /\ [Off(vm[m]) EXCEPT !.vmss = TRUE] \in Vm
      BY DEF IInv, Types, Vm, Off
    <3> QED BY <2>3, <3>1 DEF Suspending, Off, IInv, Types, Vm
  <2>4. CASE Reverting(m)
    <3>1. PICK b \in BOOLEAN : vm' = [vm EXCEPT ![m] = [Off(@) EXCEPT !.vmss = b]]
      BY <2>4 DEF Reverting
    <3>2. [Off(vm[m]) EXCEPT !.vmss = b] \in Vm
      BY DEF IInv, Types, Vm, Off
    <3> QED BY <2>4, <3>1, <3>2 DEF Reverting, Off, IInv, Types, Vm
  <2> QED BY <2>1, <2>2, <2>3, <2>4
<1>2. WorldKept
  BY <1>1, MachineStep DEF IInv, PowerInv, IsOn
<1>3. Keeps(m)
  BY <1>1 DEF Keeps, IInv, Types
<1> QED BY <1>2, <1>3

\* A start, at once or later, of a machine that exists.
LEMMA BootStep ==
  ASSUME IInv, NEW m \in Machines, At(m, "Boot"),
         \/ Booting(m)
         \/ ~IsOn(m) /\ vm' = [vm EXCEPT ![m].power = "starting"] /\ UNCHANGED utilityVars
  PROVE  WorldKept /\ Keeps(m)
<1>1. vm[m].created
  <2>1. "Boot" \in Elements(Todo(m)) \cap Starts
    BY HeadIsFirst DEF At, Todo, IInv, Types, Process, Starts
  <2>2. ~At(m, "Import")
    BY DEF At
  <2> QED BY <2>1, <2>2 DEF IInv, StartInv
<1>1a. vm[m] \in Vm
  BY DEF IInv, Types
<1>2. PICK v \in Vm :
        /\ vm' = [vm EXCEPT ![m] = v] /\ UNCHANGED utilityVars
        /\ v.created
        /\ v.port # None => v.power \in {"on", "late"} /\ v.port = vm[m].port
  <2>1. CASE Booting(m)
    <3>1. [vm[m] EXCEPT !.power = "on", !.vmss = FALSE] \in Vm
      BY <1>1a DEF Vm
    <3> QED BY <1>1, <2>1, <3>1 DEF Booting, IInv, Types, Vm
  <2>2. CASE ~IsOn(m) /\ vm' = [vm EXCEPT ![m].power = "starting"] /\ UNCHANGED utilityVars
    <3>1. [vm[m] EXCEPT !.power = "starting"] \in Vm
      BY <1>1a DEF Vm
    <3>2. vm[m].port = None
      BY <2>2 DEF IInv, PowerInv
    <3> QED BY <1>1, <2>2, <3>1, <3>2 DEF IInv, Types, Vm
  <2> QED BY <2>1, <2>2
<1>3. WorldKept
  BY <1>2, MachineStep
<1>4. Keeps(m)
  BY <1>2 DEF Keeps, IInv, Types
<1> QED BY <1>3, <1>4

\* A machine that goes, or comes new.
LEMMA NewMachineStep ==
  ASSUME IInv, NEW m \in Machines
  PROVE  /\ At(m, "Delete") /\ Removing(m) => WorldKept /\ Keeps(m)
         /\ Cloning(m) => WorldKept /\ Keeps(m) /\ vm'[m].created
<1>1. NoVm \in Vm /\ [NoVm EXCEPT !.created = TRUE] \in Vm
      /\ NoVm.power = "off" /\ NoVm.port = None
  BY DEF NoVm, Vm
<1>2. ASSUME At(m, "Delete"), Removing(m) PROVE WorldKept /\ Keeps(m)
  <2>1. WorldKept
    BY <1>1, <1>2, MachineStep DEF Removing
  <2> QED BY <1>2, <2>1 DEF Removing, Keeps, IInv, Types
<1>3. ASSUME Cloning(m) PROVE WorldKept /\ Keeps(m) /\ vm'[m].created
  <2> DEFINE v == [NoVm EXCEPT !.created = TRUE]
  <2>1. v.created /\ v.power = "off" /\ v.port = None
    BY DEF NoVm
  <2>2. WorldKept
    BY <1>1, <1>3, <2>1, MachineStep DEF Cloning
  <2> QED BY <1>3, <2>1, <2>2 DEF Cloning, Keeps, IInv, Types
<1> QED BY <1>2, <1>3

\* A step that leaves the machines alone.
LEMMA AsideKeeps == ASSUME UNCHANGED vm, NEW m \in Machines PROVE Keeps(m)
BY DEF Keeps

\* Whatever a middleware has done when it is cut short.
LEMMA HalfwayStep ==
  ASSUME IInv, NEW m \in Machines, Halfway(m)
  PROVE  WorldKept /\ Keeps(m)
<1>1. CASE UNCHANGED <<vm, utilityVars>>
  BY <1>1, QuietStep, AsideKeeps
<1>2. CASE Discarding(m) \/ Suspending(m) \/ Reverting(m)
  BY <1>2, EffectStep
<1>3. CASE At(m, "Delete") /\ Removing(m)
  BY <1>3, NewMachineStep
<1>4. CASE Pruning(FALSE) \/ AddingDevice
  BY <1>4, PruneStep, DeviceStep, AsideKeeps DEF Pruning, AddingDevice
<1>5. CASE At(m, "forward_ports") /\ Forwarding(m, FALSE) /\ UNCHANGED vm
  BY <1>5, ForwardStep, AsideKeeps
<1>6. CASE /\ At(m, "Boot") /\ ~IsOn(m)
           /\ \/ Booting(m)
              \/ vm' = [vm EXCEPT ![m].power = "starting"] /\ UNCHANGED utilityVars
  BY <1>6, BootStep
<1> QED BY <1>1, <1>2, <1>3, <1>4, <1>5, <1>6 DEF Halfway

-----------------------------------------------------------------------------
(* The steps.                                                              *)

\* The process and the world together, for a middleware that ends.
LEMMA GoesInvariant ==
  ASSUME IInv, UNCHANGED workload, NEW m \in Machines, NEW x, NEW steps,
         Goes(m, x, steps), Fits(x, steps), WorldKept, Keeps(m),
         x = "Import" => vm'[m].created,
         "forward_ports" \in Elements(steps) => fwds'[proc'[m].port] = None
  PROVE  IInv'
<1> DEFINE t == Todo(m)
<1>1. StartInv' /\ NextInv'
  BY GoesStep DEF IInv, StartKept
<1>2. proc' \in [Machines -> Process] /\ \A n \in Machines \ {m} : proc'[n] = proc[n]
  BY DEF Goes, IInv, Types
<1>3. Types' /\ PowerInv' /\ Reachable'
  BY <1>2 DEF WorldKept, IInv, Types, Entry, driver
<1>4. At(m, "forward_ports")' => "forward_ports" \in Elements(steps)
  <2>1. t \in Seq(Middleware) /\ t # <<>> /\ steps \in Seq(Middleware)
    BY DEF IInv, Types, Process, Goes, At, Todo, Fits
  <2>2. "forward_ports" \notin Rest(t)
    BY DEF IInv, NextInv
  <2>3. /\ steps \o Tail(t) \in Seq(Middleware)
        /\ Elements(steps \o Tail(t)) \subseteq Elements(steps) \cup Rest(t)
    BY <2>1, BranchElements
  <2>4. proc'[m].todo = steps \o Tail(t)
    BY DEF Goes
  <2> QED BY <2>2, <2>3, <2>4, HeadIsFirst DEF At
<1>5. FreeInv'
  <2> SUFFICES ASSUME NEW n \in Machines, At(n, "forward_ports")', proc'[n].port \in Ports \ raced'
               PROVE  fwds'[proc'[n].port] \in {None, n}
    BY DEF FreeInv, FreePort
  <2>1. CASE n = m
    BY <1>4, <2>1
  <2>2. CASE n # m
    BY <1>2, <2>2 DEF WorldKept, At
  <2> QED BY <2>1, <2>2
<1> QED BY <1>1, <1>3, <1>5 DEF IInv

\* The same for a process that begins anew or ends.
LEMMA RestartInvariant ==
  ASSUME IInv, UNCHANGED workload, NEW m \in Machines, NEW p \in Process,
         proc' = [proc EXCEPT ![m] = p], WorldKept, Keeps(m),
         "forward_ports" \notin Elements(p.todo),
         Elements(p.todo) \cap Starts # {} =>
           (vm'[m].created \/ (p.todo # <<>> /\ Head(p.todo) = "Import")) /\ Elements(p.todo) \cap Ends = {}
  PROVE  IInv'
<1>1. "forward_ports" \notin Rest(p.todo)
  BY DEF Elements, Rest, Process
<1>2. StartInv' /\ NextInv'
  BY <1>1, RestartStep DEF IInv, StartKept
<1>3. proc' \in [Machines -> Process] /\ proc'[m] = p /\ \A n \in Machines \ {m} : proc'[n] = proc[n]
  BY DEF IInv, Types
<1>4. Types' /\ PowerInv' /\ Reachable'
  BY <1>3 DEF WorldKept, IInv, Types, Entry, driver
<1>5. ~At(m, "forward_ports")'
  BY <1>3, HeadIsFirst DEF At, Process
<1>6. FreeInv'
  BY <1>3, <1>5 DEF FreeInv, FreePort, WorldKept, At
<1> QED BY <1>2, <1>4, <1>6 DEF IInv

\* The process stays as it is.
LEMMA WaitingInvariant ==
  ASSUME IInv, UNCHANGED workload, NEW m \in Machines, UNCHANGED proc, WorldKept, Keeps(m), vm[m].created => vm'[m].created
  PROVE  IInv'
<1>1. StartInv' /\ NextInv'
  BY DEF IInv, StartInv, NextInv, Keeps, At, Todo
<1>2. Types'
  BY DEF IInv, Types, Entry, driver, WorldKept
<1>3. FreeInv'
  BY DEF WorldKept, FreeInv, FreePort, At
<1> QED BY <1>1, <1>2, <1>3 DEF IInv, WorldKept

\* What short sequences hold, and joined ones.
LEMMA NoElements == <<>> \in Seq(Middleware) /\ Elements(<<>>) = {} /\ Rest(<<>>) = {}
BY DEF Elements, Rest

\* A sequence of one middleware.
LEMMA One ==
  ASSUME NEW e \in Middleware
  PROVE  <<e>> \in Seq(Middleware) /\ Elements(<<e>>) = {e} /\ Rest(<<e>>) = {}
BY DEF Elements, Rest

\* A sequence of two.
LEMMA Two ==
  ASSUME NEW e \in Middleware, NEW f \in Middleware
  PROVE  <<e, f>> \in Seq(Middleware) /\ Elements(<<e, f>>) = {e, f} /\ Rest(<<e, f>>) = {f}
BY DEF Elements, Rest

\* The middleware of two sequences joined.
LEMMA Joined ==
  ASSUME NEW s \in Seq(Middleware), NEW t \in Seq(Middleware)
  PROVE  /\ s \o t \in Seq(Middleware) /\ Elements(s \o t) = Elements(s) \cup Elements(t)
         /\ Rest(s \o t) \subseteq Elements(s \o t)
<1>1. /\ s \o t \in Seq(Middleware) /\ Len(s \o t) = Len(s) + Len(t)
      /\ Len(s) \in Nat /\ Len(t) \in Nat
      /\ \A i \in 1 .. Len(s) + Len(t) : (s \o t)[i] = IF i <= Len(s) THEN s[i] ELSE t[i - Len(s)]
  OBVIOUS
<1>2. Elements(s \o t) \subseteq Elements(s) \cup Elements(t)
  BY <1>1 DEF Elements
<1>3. Elements(s) \subseteq Elements(s \o t)
  BY <1>1 DEF Elements
<1>4. ASSUME NEW i \in 1 .. Len(t) PROVE t[i] \in Elements(s \o t)
  <2>1. Len(s) + i \in 1 .. Len(s \o t) /\ (s \o t)[Len(s) + i] = t[i]
    BY <1>1
  <2> QED BY <2>1 DEF Elements
<1>5. Rest(s \o t) \subseteq Elements(s \o t)
  BY <1>1 DEF Elements, Rest
<1> QED BY <1>1, <1>2, <1>3, <1>4, <1>5 DEF Elements

\* The branches that do not start a machine.
LEMMA Branches ==
  /\ \A x : Fits(x, <<>>) /\ "forward_ports" \notin Elements(<<>>)
  /\ Fits("Running?Halt", <<"GracefulHalt">>) /\ "forward_ports" \notin Elements(<<"GracefulHalt">>)
  /\ Fits("GracefulHalt", <<"DiscardSuspendedState", "Halt">>)
  /\ "forward_ports" \notin Elements(<<"DiscardSuspendedState", "Halt">>)
  /\ Fits("Running?", <<"PruneForwardedPorts", "Suspended?">>)
  /\ "forward_ports" \notin Elements(<<"PruneForwardedPorts", "Suspended?">>)
  /\ Fits("Destroy", <<"Delete">>) /\ "forward_ports" \notin Elements(<<"Delete">>)
  /\ Fits("Import", <<"Imported">>) /\ "forward_ports" \notin Elements(<<"Imported">>)
  /\ Fits("ForwardPorts", <<"forward_ports">>)
<1>1. \A x : Fits(x, <<>>) /\ "forward_ports" \notin Elements(<<>>)
  BY NoElements DEF Fits
<1>2. Fits("Running?Halt", <<"GracefulHalt">>) /\ "forward_ports" \notin Elements(<<"GracefulHalt">>)
  <2>1. "GracefulHalt" \in Middleware
    BY DEF Middleware
  <2> QED BY <2>1, One DEF Fits, Starts, Ends
<1>3. /\ Fits("GracefulHalt", <<"DiscardSuspendedState", "Halt">>)
      /\ "forward_ports" \notin Elements(<<"DiscardSuspendedState", "Halt">>)
  <2>1. "DiscardSuspendedState" \in Middleware /\ "Halt" \in Middleware
    BY DEF Middleware
  <2> QED BY <2>1, Two DEF Fits, Starts, Ends
<1>4. /\ Fits("Running?", <<"PruneForwardedPorts", "Suspended?">>)
      /\ "forward_ports" \notin Elements(<<"PruneForwardedPorts", "Suspended?">>)
  <2>1. "PruneForwardedPorts" \in Middleware /\ "Suspended?" \in Middleware
    BY DEF Middleware
  <2> QED BY <2>1, Two DEF Fits, Starts, Ends
<1>5. Fits("Destroy", <<"Delete">>) /\ "forward_ports" \notin Elements(<<"Delete">>)
  <2>1. "Delete" \in Middleware
    BY DEF Middleware
  <2> QED BY <2>1, One DEF Fits, Starts, Ends
<1>6. Fits("Import", <<"Imported">>) /\ "forward_ports" \notin Elements(<<"Imported">>)
  <2>1. "Imported" \in Middleware
    BY DEF Middleware
  <2> QED BY <2>1, One DEF Fits, Starts, Ends
<1>7. Fits("ForwardPorts", <<"forward_ports">>)
  <2>1. "forward_ports" \in Middleware
    BY DEF Middleware
  <2> QED BY <2>1, One DEF Fits, Starts, Ends
<1> QED BY <1>1, <1>2, <1>3, <1>4, <1>5, <1>6, <1>7

\* The branch that starts one.
LEMMA StartBranches ==
  ASSUME NEW first \in {<<>>, <<"Configure">>}, NEW steps,
         steps = first \o <<"HandleForwardedPortCollisions", "Boot", "WaitForAddress", "ForwardPorts">>
  PROVE  Fits("Suspended?", steps) /\ "forward_ports" \notin Elements(steps)
<1> DEFINE four == <<"HandleForwardedPortCollisions", "Boot", "WaitForAddress", "ForwardPorts">>
<1>1. four \in Seq(Middleware)
      /\ Elements(four) = {"HandleForwardedPortCollisions", "Boot", "WaitForAddress", "ForwardPorts"}
  <2>1. four \in Seq(Middleware)
    BY DEF Middleware
  <2> QED BY <2>1 DEF Elements
<1>2. first \in Seq(Middleware) /\ Elements(first) \subseteq {"Configure"}
  <2>1. "Configure" \in Middleware
    BY DEF Middleware
  <2>2. <<"Configure">> \in Seq(Middleware) /\ Elements(<<"Configure">>) = {"Configure"}
    BY <2>1, One
  <2> QED BY <2>2, NoElements
<1>3. /\ steps \in Seq(Middleware) /\ Rest(steps) \subseteq Elements(steps)
      /\ Elements(steps) = Elements(first) \cup Elements(four)
  <2> HIDE DEF four
  <2>1. /\ first \o four \in Seq(Middleware) /\ Rest(first \o four) \subseteq Elements(first \o four)
        /\ Elements(first \o four) = Elements(first) \cup Elements(four)
    BY <1>1, <1>2, Joined
  <2>2. steps = first \o four
    BY DEF four
  <2> QED BY <2>1, <2>2
<1> QED BY <1>1, <1>2, <1>3 DEF Fits, Starts, Ends

\* A middleware that only says what follows.
LEMMA ThenGoes ==
  ASSUME Types, NEW m \in Machines, NEW x, At(m, x), NEW steps \in Seq(Middleware), Then(m, steps)
  PROVE  Goes(m, x, steps) /\ proc'[m].port = proc[m].port
<1>1. steps \o Tail(Todo(m)) \in Seq(Middleware)
  BY BranchElements DEF Types, Process, At, Todo
<1>2. proc'[m] = [proc[m] EXCEPT !.todo = steps \o Tail(Todo(m))]
  BY DEF Then, Types, Todo
<1>3. proc'[m] \in Process
  BY <1>1, <1>2 DEF Types, Process
<1>4. proc' = [proc EXCEPT ![m] = proc'[m]]
  BY <1>2 DEF Then, Types, Todo
<1> QED BY <1>2, <1>3, <1>4 DEF Goes, Types, Process

\* A middleware that leaves the world alone, and one that has its effect.
LEMMA BranchInvariant ==
  ASSUME IInv, UNCHANGED workload, NEW m \in Machines, NEW x, At(m, x), NEW steps, Fits(x, steps), Then(m, steps),
         WorldKept, Keeps(m), x # "Import",
         "forward_ports" \in Elements(steps) => fwds'[proc[m].port] = None
  PROVE  IInv'
<1>1. Goes(m, x, steps) /\ proc'[m].port = proc[m].port
  BY ThenGoes DEF IInv, Fits
<1> QED BY <1>1, GoesInvariant

\* Every middleware that does not touch the world.
LEMMA QuietSteps ==
  ASSUME IInv, UNCHANGED workload, NEW m \in Machines,
         \/ HaltIfRunning(m) \/ StartUnlessRunning(m) \/ ConfigureUnlessSuspended(m)
         \/ Destroy(m) \/ Export(m) \/ Imported(m) \/ WaitForAddress(m)
         \/ ForwardPorts(m)
  PROVE  IInv'
<1>1. UNCHANGED <<vm, utilityVars>>
  BY DEF HaltIfRunning, StartUnlessRunning, ConfigureUnlessSuspended, Destroy, Export, Imported,
         WaitForAddress, ForwardPorts
<1>2. WorldKept /\ Keeps(m)
  BY <1>1, QuietStep, AsideKeeps
<1>3. ASSUME NEW x, At(m, x), x # "Import", Done(m) PROVE IInv'
  BY <1>2, <1>3, Branches, BranchInvariant DEF Done
<1>4. CASE HaltIfRunning(m)
  BY <1>2, <1>4, Branches, BranchInvariant DEF HaltIfRunning
<1>5. CASE StartUnlessRunning(m)
  BY <1>2, <1>5, Branches, BranchInvariant DEF StartUnlessRunning
<1>6. CASE ConfigureUnlessSuspended(m)
  <2> DEFINE four == <<"HandleForwardedPortCollisions", "Boot", "WaitForAddress", "ForwardPorts">>
  <2>2. PICK first \in {<<>>, <<"Configure">>} :
          At(m, "Suspended?") /\ Then(m, first \o four)
    BY <1>6 DEF ConfigureUnlessSuspended
  <2> DEFINE steps == first \o four
  <2>3. Fits("Suspended?", steps) /\ "forward_ports" \notin Elements(steps)
    BY <2>2, StartBranches
  <2> QED BY <1>2, <2>2, <2>3, BranchInvariant
<1>7. CASE Destroy(m)
  BY <1>2, <1>7, Branches, BranchInvariant DEF Destroy
<1>8. CASE Export(m) \/ Imported(m) \/ WaitForAddress(m)
  BY <1>3, <1>8 DEF Export, Imported, WaitForAddress
<1>9. CASE ForwardPorts(m)
  <2>1. fwds'[proc[m].port] = None
    BY <1>1, <1>9 DEF ForwardPorts
  <2> QED BY <1>2, <1>9, <2>1, Branches, BranchInvariant DEF ForwardPorts
<1> QED BY <1>4, <1>5, <1>6, <1>7, <1>8, <1>9

\* Every middleware that has an effect and is done.
LEMMA EffectSteps ==
  ASSUME IInv, UNCHANGED workload, NEW m \in Machines,
         \/ DiscardSuspendedState(m) \/ GracefulHalt(m) \/ Halt(m) \/ Suspend(m)
         \/ PruneForwardedPorts(m) \/ SnapshotRestore(m) \/ ForwardThePorts(m) \/ Configure(m)
  PROVE  IInv'
<1>1. ASSUME NEW x, At(m, x), x # "Import", Done(m), WorldKept, Keeps(m) PROVE IInv'
  BY <1>1, Branches, BranchInvariant DEF Done
<1>2. CASE DiscardSuspendedState(m) \/ Halt(m) \/ Suspend(m) \/ SnapshotRestore(m)
  BY <1>1, <1>2, EffectStep DEF DiscardSuspendedState, Halt, Suspend, SnapshotRestore
<1>3. CASE GracefulHalt(m)
  <2>1. CASE Stopping(m) /\ Done(m)
    BY <1>1, <1>3, <2>1, EffectStep DEF GracefulHalt
  <2>2. CASE UNCHANGED <<vm, utilityVars>> /\ Then(m, <<"DiscardSuspendedState", "Halt">>)
    <3>1. WorldKept /\ Keeps(m)
      BY <2>2, QuietStep, AsideKeeps
    <3> QED BY <1>3, <2>2, <3>1, Branches, BranchInvariant DEF GracefulHalt
  <2> QED BY <1>3, <2>1, <2>2 DEF GracefulHalt
<1>4. CASE PruneForwardedPorts(m)
  <2>1. WorldKept /\ Keeps(m)
    BY <1>4, PruneStep, AsideKeeps DEF PruneForwardedPorts, Pruning
  <2> QED BY <1>1, <1>4, <2>1 DEF PruneForwardedPorts
<1>5. CASE ForwardThePorts(m)
  <2>1. WorldKept
    BY <1>5, ForwardStep DEF ForwardThePorts
  <2>2. Keeps(m)
    BY <1>5 DEF ForwardThePorts, Keeps, IInv, Types, Vm
  <2> QED BY <1>1, <1>5, <2>1, <2>2 DEF ForwardThePorts
<1>6. CASE Configure(m)
  <2>1. WorldKept /\ Keeps(m)
    BY <1>6, QuietStep, DeviceStep, AsideKeeps DEF Configure, AddingDevice
  <2> QED BY <1>1, <1>6, <2>1 DEF Configure
<1> QED BY <1>2, <1>3, <1>4, <1>5, <1>6

\* The steps that note more of the process than what is left.
LEMMA NotingSteps ==
  ASSUME IInv, UNCHANGED workload, NEW m \in Machines,
         Delete(m) \/ Import(m) \/ HandleForwardedPortCollisions(m) \/ Boot(m)
  PROVE  IInv'
<1>1. ASSUME NEW x, NEW steps, At(m, x), Fits(x, steps), "forward_ports" \notin Elements(steps),
             NEW p \in Process, proc' = [proc EXCEPT ![m] = p], p.todo = steps \o Tail(Todo(m)),
             WorldKept, Keeps(m), x = "Import" => vm'[m].created
      PROVE  IInv'
  <2>1. proc'[m] = p
    BY <1>1 DEF IInv, Types
  <2>2. Goes(m, x, steps)
    BY <1>1, <2>1 DEF Goes
  <2> QED BY <1>1, <2>2, GoesInvariant
<1>8. ASSUME NEW x PROVE Fits(x, <<>>) /\ "forward_ports" \notin Elements(<<>>)
  BY Branches
<1>2. proc[m] \in Process /\ Todo(m) = proc[m].todo
  BY DEF IInv, Types, Todo
<1>3. ASSUME Todo(m) # <<>> PROVE Tail(Todo(m)) \in Seq(Middleware) /\ <<>> \o Tail(Todo(m)) = Tail(Todo(m))
                                  /\ <<"Imported">> \o Tail(Todo(m)) \in Seq(Middleware)
  BY <1>2, <1>3 DEF Process, Middleware
<1>4. CASE Delete(m)
  <2> DEFINE p == [proc[m] EXCEPT !.todo = Tail(@), !.did = "delete"]
  <2>1. p \in Process /\ p.todo = <<>> \o Tail(Todo(m)) /\ proc' = [proc EXCEPT ![m] = p]
    BY <1>2, <1>3, <1>4 DEF Delete, Process, At, Todo
  <2>2. WorldKept /\ Keeps(m) /\ At(m, "Delete")
    BY <1>4, NewMachineStep DEF Delete
  <2> HIDE DEF p
  <2>3. Fits("Delete", <<>>) /\ "forward_ports" \notin Elements(<<>>)
    BY <1>8
  <2>9. "Delete" = "Import" => vm'[m].created
    OBVIOUS
  <2> QED BY <1>1, <2>1, <2>2, <2>3, <2>9
<1>5. CASE Import(m)
  <2> DEFINE p == [proc[m] EXCEPT !.todo = <<"Imported">> \o Tail(@), !.imported = TRUE]
  <2>1. p \in Process /\ p.todo = <<"Imported">> \o Tail(Todo(m)) /\ proc' = [proc EXCEPT ![m] = p]
    BY <1>2, <1>3, <1>5 DEF Import, Process, At, Todo
  <2>2. WorldKept /\ Keeps(m) /\ At(m, "Import") /\ vm'[m].created
    BY <1>5, NewMachineStep DEF Import
  <2> HIDE DEF p
  <2> QED BY <1>1, <2>1, <2>2, Branches
<1>6. CASE HandleForwardedPortCollisions(m)
  <2>1. PICK q \in Ports : proc' = [proc EXCEPT ![m].todo = Tail(@), ![m].port = q]
    BY <1>6, WorkloadType DEF HandleForwardedPortCollisions, IInv, Types
  <2> DEFINE p == [proc[m] EXCEPT !.todo = Tail(@), !.port = q]
  <2>2. p \in Process /\ p.todo = <<>> \o Tail(Todo(m)) /\ proc' = [proc EXCEPT ![m] = p]
    BY <1>2, <1>3, <1>6, <2>1 DEF HandleForwardedPortCollisions, Process, At, Todo
  <2>3. WorldKept /\ Keeps(m) /\ At(m, "HandleForwardedPortCollisions")
    BY <1>6, QuietStep, AsideKeeps DEF HandleForwardedPortCollisions
  <2> HIDE DEF p
  <2>4. /\ Fits("HandleForwardedPortCollisions", <<>>)
        /\ "forward_ports" \notin Elements(<<>>)
    BY <1>8
  <2>9. "HandleForwardedPortCollisions" = "Import" => vm'[m].created
    OBVIOUS
  <2> QED BY <1>1, <2>2, <2>3, <2>4, <2>9
<1>7. CASE Boot(m)
  <2> DEFINE p == [proc[m] EXCEPT !.todo = Tail(@), !.did = "boot"]
  <2>1. p \in Process /\ p.todo = <<>> \o Tail(Todo(m)) /\ proc' = [proc EXCEPT ![m] = p]
    BY <1>2, <1>3, <1>7 DEF Boot, Process, At, Todo
  <2>2. WorldKept /\ Keeps(m) /\ At(m, "Boot")
    BY <1>7, BootStep DEF Boot
  <2> HIDE DEF p
  <2>3. Fits("Boot", <<>>) /\ "forward_ports" \notin Elements(<<>>)
    BY <1>8
  <2>9. "Boot" = "Import" => vm'[m].created
    OBVIOUS
  <2> QED BY <1>1, <2>1, <2>2, <2>3, <2>9
<1> QED BY <1>4, <1>5, <1>6, <1>7

\* The pipelines: none has a request in it, and those that start a machine do
\* not end it.
LEMMA Pipelines ==
  ASSUME NEW cmd \in Command
  PROVE  /\ Pipeline(cmd) \in Seq(Middleware)
         /\ "forward_ports" \notin Elements(Pipeline(cmd))
         /\ Elements(Pipeline(cmd)) \cap Starts # {} => Elements(Pipeline(cmd)) \cap Ends = {}
         /\ cmd = "destroy" => Elements(Pipeline(cmd)) \cap Starts = {}
<1>1. /\ HaltAction \in Seq(Middleware) /\ StartAction \in Seq(Middleware)
      /\ Elements(HaltAction) = {"DiscardSuspendedState", "Running?Halt"}
      /\ Elements(StartAction) = {"Running?"}
  <2>1. "DiscardSuspendedState" \in Middleware /\ "Running?Halt" \in Middleware
        /\ "Running?" \in Middleware
    BY DEF Middleware
  <2> QED BY <2>1, One, Two DEF HaltAction, StartAction
<1>2. CASE cmd \in {"up", "resume"}
  BY <1>1, <1>2 DEF Pipeline, Starts, Ends
<1>3. CASE cmd = "halt"
  BY <1>1, <1>3 DEF Pipeline, Starts, Ends
<1>4. CASE cmd = "suspend"
  <2>1. <<"Suspend">> \in Seq(Middleware) /\ Elements(<<"Suspend">>) = {"Suspend"}
    BY One DEF Middleware
  <2>2. Pipeline(cmd) = <<"Suspend">>
    BY <1>4 DEF Pipeline
  <2>3. Pipeline(cmd) \in Seq(Middleware) /\ Elements(Pipeline(cmd)) = {"Suspend"}
    BY <2>1, <2>2
  <2> QED BY <1>4, <2>3 DEF Starts, Ends
<1>5. CASE cmd = "reload"
  <2>1. Pipeline(cmd) = HaltAction \o StartAction
    BY <1>5 DEF Pipeline
  <2>2. /\ HaltAction \o StartAction \in Seq(Middleware)
        /\ Elements(HaltAction \o StartAction) = Elements(HaltAction) \cup Elements(StartAction)
    BY <1>1, Joined
  <2>3. /\ Pipeline(cmd) \in Seq(Middleware)
        /\ Elements(Pipeline(cmd)) = {"DiscardSuspendedState", "Running?Halt", "Running?"}
    BY <1>1, <2>1, <2>2
  <2> QED BY <1>5, <2>3 DEF Starts, Ends
<1>6. CASE cmd = "destroy"
  <2> DEFINE t == <<"Destroy", "PruneForwardedPorts">>
  <2>1. "Destroy" \in Middleware /\ "PruneForwardedPorts" \in Middleware
    BY DEF Middleware
  <2>2. t \in Seq(Middleware) /\ Elements(t) = {"Destroy", "PruneForwardedPorts"}
    BY <2>1, Two
  <2>3. Pipeline(cmd) = HaltAction \o t
    BY <1>6 DEF Pipeline
  <2> HIDE DEF t
  <2>4. /\ HaltAction \o t \in Seq(Middleware)
        /\ Elements(HaltAction \o t) = Elements(HaltAction) \cup Elements(t)
    BY <1>1, <2>2, Joined
  <2> QED BY <1>1, <2>2, <2>3, <2>4 DEF Starts, Ends
<1>7. CASE cmd = "package"
  <2> DEFINE t == <<"PruneForwardedPorts", "Export">>
  <2>1. "Export" \in Middleware /\ "PruneForwardedPorts" \in Middleware
    BY DEF Middleware
  <2>2. t \in Seq(Middleware) /\ Elements(t) = {"PruneForwardedPorts", "Export"}
    BY <2>1, Two
  <2>3. Pipeline(cmd) = HaltAction \o t
    BY <1>7 DEF Pipeline
  <2> HIDE DEF t
  <2>4. /\ HaltAction \o t \in Seq(Middleware)
        /\ Elements(HaltAction \o t) = Elements(HaltAction) \cup Elements(t)
    BY <1>1, <2>2, Joined
  <2>5. /\ Pipeline(cmd) \in Seq(Middleware)
        /\ Elements(Pipeline(cmd)) =
             {"DiscardSuspendedState", "Running?Halt", "PruneForwardedPorts", "Export"}
    BY <1>1, <2>2, <2>3, <2>4
  <2> QED BY <1>7, <2>5 DEF Starts, Ends
<1>8. CASE cmd = "restore"
  <2> DEFINE s == <<"SnapshotRestore">>
  <2>1. s \in Seq(Middleware) /\ Elements(s) = {"SnapshotRestore"}
    BY One DEF Middleware
  <2>2. Pipeline(cmd) = s \o StartAction
    BY <1>8 DEF Pipeline
  <2> HIDE DEF s
  <2>3. /\ s \o StartAction \in Seq(Middleware)
        /\ Elements(s \o StartAction) = Elements(s) \cup Elements(StartAction)
    BY <1>1, <2>1, Joined
  <2>4. /\ Pipeline(cmd) \in Seq(Middleware)
        /\ Elements(Pipeline(cmd)) = {"SnapshotRestore", "Running?"}
    BY <1>1, <2>1, <2>2, <2>3
  <2> QED BY <1>8, <2>4 DEF Starts, Ends
<1> QED BY <1>2, <1>3, <1>4, <1>5, <1>6, <1>7, <1>8 DEF Command

\* A command ends, well or not.
LEMMA AbortInvariant ==
  ASSUME IInv, UNCHANGED workload, NEW m \in Machines, Abort(m), WorldKept, Keeps(m)
  PROVE  IInv'
<1>1. Idle \in Process /\ Idle.todo = <<>>
  BY DEF Idle, Process
<1>2. Elements(Idle.todo) = {}
  BY <1>1 DEF Elements
<1> QED BY <1>1, <1>2, RestartInvariant DEF Abort

\* An import is undone.
LEMMA DestroyInvariant ==
  ASSUME IInv, UNCHANGED workload, NEW m \in Machines, DestroyImport(m), WorldKept, Keeps(m)
  PROVE  IInv'
<1> DEFINE p == [Idle EXCEPT !.did = "nothing", !.todo = Pipeline("destroy")]
<1>1. p \in Process /\ p.todo = Pipeline("destroy")
  BY Pipelines DEF Idle, Process, Command
<1> QED BY <1>1, Pipelines, RestartInvariant DEF DestroyImport, Command

\* A command begins: one that starts a machine finds it or imports it.
LEMMA BeginInvariant ==
  ASSUME IInv, UNCHANGED workload, NEW m \in Machines, Begin(m)
  PROVE  IInv'
<1>1. WorldKept /\ Keeps(m) /\ UNCHANGED vm
  BY QuietStep, AsideKeeps DEF Begin
<1>2. PICK cmd \in workload.commands[m] :
        proc' = [proc EXCEPT ![m] =
          [Idle EXCEPT !.did = IF cmd = "halt" THEN "halt" ELSE "nothing",
                       !.todo = IF vm[m].created THEN Pipeline(cmd)
                                ELSE IF cmd = "up" THEN <<"Import">> \o StartAction ELSE <<>>]]
  BY DEF Begin
<1>3. cmd \in Command
  BY WorkloadType DEF IInv, Types
<1> DEFINE did == IF cmd = "halt" THEN "halt" ELSE "nothing"
           imp == <<"Import">> \o StartAction
           todo == IF vm[m].created THEN Pipeline(cmd) ELSE IF cmd = "up" THEN imp ELSE <<>>
           p == [Idle EXCEPT !.did = did, !.todo = todo]
<1>4. "Import" \in Middleware /\ "Running?" \in Middleware
  BY DEF Middleware
<1>5. imp \in Seq(Middleware) /\ imp # <<>> /\ Head(imp) = "Import"
      /\ "forward_ports" \notin Elements(imp) /\ Elements(imp) \cap Ends = {}
  <2>1. imp \in Seq(Middleware) /\ Elements(imp) = {"Import", "Running?"}
    <3>1. <<"Import">> \in Seq(Middleware) /\ Elements(<<"Import">>) = {"Import"}
          /\ StartAction \in Seq(Middleware) /\ Elements(StartAction) = {"Running?"}
      BY <1>4, One DEF StartAction
    <3> QED BY <3>1, Joined
  <2>2. Len(imp) = 2 /\ imp[1] = "Import"
    BY <1>4 DEF StartAction
  <2>3. imp # <<>> /\ Head(imp) = imp[1]
    BY <2>1, <2>2
  <2> QED BY <2>1, <2>2, <2>3 DEF Ends
<1>6. Elements(<<>>) = {}
  BY NoElements
<1>7. /\ todo \in Seq(Middleware) /\ "forward_ports" \notin Elements(todo)
      /\ Elements(todo) \cap Starts # {} =>
           (vm[m].created \/ (todo # <<>> /\ Head(todo) = "Import")) /\ Elements(todo) \cap Ends = {}
  <2>1. CASE vm[m].created
    BY <1>3, <2>1, Pipelines
  <2>2. CASE ~vm[m].created /\ cmd = "up"
    BY <1>5, <2>2
  <2>3. CASE ~vm[m].created /\ cmd # "up"
    BY <1>6, <2>3
  <2> QED BY <2>1, <2>2, <2>3
<1> HIDE DEF todo, did
<1>8. did \in {"idle", "nothing", "halt", "boot", "delete"}
  BY DEF did
<1>9. p \in Process /\ p.todo = todo
  BY <1>7, <1>8 DEF Idle, Process
<1>10. proc' = [proc EXCEPT ![m] = p]
  BY <1>2 DEF todo, did
<1> QED BY <1>1, <1>7, <1>9, <1>10, RestartInvariant

\* Guests and late starts: the process of the machine stays as it is.
LEMMA GuestSteps ==
  ASSUME IInv, UNCHANGED workload, NEW m \in Machines, GuestStops(m) \/ StartComesThrough(m) \/ StartIsLost(m)
  PROVE  IInv'
<1>1. PICK v \in Vm :
        /\ vm' = [vm EXCEPT ![m] = v] /\ UNCHANGED <<proc, utilityVars>>
        /\ v.created = vm[m].created
        /\ v.power # "off" => v.created
        /\ v.port # None => v.power \in {"on", "late"} /\ v.port = vm[m].port
  <2>1. vm[m] \in Vm /\ Off(vm[m]) \in Vm /\ Off(vm[m]).created = vm[m].created
        /\ Off(vm[m]).power = "off" /\ Off(vm[m]).port = None
    BY DEF IInv, Types, Vm, Off
  <2>2. CASE GuestStops(m) \/ StartIsLost(m)
    BY <2>1, <2>2 DEF GuestStops, StartIsLost, IInv, Types
  <2>3. CASE StartComesThrough(m)
    <3> DEFINE v == [vm[m] EXCEPT !.power = "late", !.vmss = FALSE]
    <3>1. v \in Vm /\ v.created = vm[m].created /\ v.power = "late" /\ v.port = vm[m].port
      BY <2>1 DEF Vm
    <3>2. vm[m].created
      BY <2>3 DEF StartComesThrough, IInv, PowerInv
    <3> QED BY <2>3, <3>1, <3>2 DEF StartComesThrough, IInv, Types
  <2> QED BY <2>2, <2>3
<1>2. WorldKept
  BY <1>1, MachineStep
<1>3. Keeps(m) /\ (vm[m].created => vm'[m].created)
  BY <1>1 DEF Keeps, IInv, Types
<1> QED BY <1>1, <1>2, <1>3, WaitingInvariant

-----------------------------------------------------------------------------
(* The specification. *)

\* Every step keeps the invariant.
LEMMA Inductive == IInv /\ [Next]_vars => IInv'
<1> SUFFICES ASSUME IInv, [Next]_vars PROVE IInv'
  OBVIOUS
<1>1. CASE UNCHANGED vars
  BY <1>1 DEF vars, IInv, Types, Entry, driver, PowerInv, IsOn, StartInv, NextInv, Todo, At, FreeInv,
              FreePort, Reachable
<1>2. ASSUME NEW m \in Machines, Step(m), UNCHANGED workload PROVE IInv'
  <2>1. CASE \/ HaltIfRunning(m) \/ StartUnlessRunning(m) \/ ConfigureUnlessSuspended(m)
             \/ Destroy(m) \/ Export(m) \/ Imported(m) \/ WaitForAddress(m)
             \/ ForwardPorts(m)
    BY <1>2, <2>1, QuietSteps
  <2>2. CASE \/ DiscardSuspendedState(m) \/ GracefulHalt(m) \/ Halt(m) \/ Suspend(m)
             \/ PruneForwardedPorts(m) \/ SnapshotRestore(m) \/ ForwardThePorts(m) \/ Configure(m)
    BY <1>2, <2>2, EffectSteps
  <2>3. CASE Delete(m) \/ Import(m) \/ HandleForwardedPortCollisions(m) \/ Boot(m)
    BY <1>2, <2>3, NotingSteps
  <2>4. CASE InterruptedImport(m)
    BY <1>2, <2>4, DestroyInvariant, QuietStep, AsideKeeps DEF InterruptedImport
  <2>5. CASE ForwardAgain(m)
    BY <1>2, <2>5, ForwardStep, AsideKeeps, WaitingInvariant DEF ForwardAgain
  <2>6. CASE StepFails(m)
    BY <1>2, <2>6, HalfwayStep, AbortInvariant, DestroyInvariant DEF StepFails, Raise
  <2>7. CASE Succeed(m)
    BY <1>2, <2>7, AbortInvariant, QuietStep, AsideKeeps DEF Succeed
  <2> QED BY <1>2, <2>1, <2>2, <2>3, <2>4, <2>5, <2>6, <2>7 DEF Step
<1>3. ASSUME NEW m \in Machines, Outside(m), UNCHANGED workload PROVE IInv'
  <2>1. CASE Begin(m)
    BY <1>3, <2>1, BeginInvariant
  <2>2. CASE Interrupt(m)
    BY <1>3, <2>2, AbortInvariant, QuietStep, AsideKeeps DEF Interrupt
  <2>3. CASE Kill(m)
    BY <1>3, <2>3, HalfwayStep, AbortInvariant DEF Kill
  <2>4. CASE GuestStops(m) \/ StartComesThrough(m) \/ StartIsLost(m)
    BY <1>3, <2>4, GuestSteps
  <2> QED BY <1>3, <2>1, <2>2, <2>3, <2>4 DEF Outside
<1> QED BY <1>1, <1>2, <1>3 DEF Next

\* The invariant holds at first.
LEMMA Initially == Init => IInv
<1> SUFFICES ASSUME Init PROVE IInv
  OBVIOUS
<1>1. NoVm \in Vm /\ Idle \in Process /\ Idle.todo = <<>> /\ NoVm.port = None /\ NoVm.power = "off"
  BY DEF NoVm, Vm, Idle, Process
<1>2. Elements(<<>>) = {} /\ Rest(<<>>) = {}
  BY DEF Elements, Rest
<1>3. workload \in Workloads /\ "plain" \in Entry
  BY WorkloadType DEF Init
<1> QED BY <1>1, <1>2, <1>3 DEF Init, NoFwds, IInv, Types, PowerInv, StartInv, NextInv, Todo, FreeInv,
                                At, Reachable

\* The invariant holds throughout.
THEOREM LifecycleInvariance == Spec => []IInv
<1> QED BY Initially, Inductive, PTL DEF Spec

\* Types: the variables hold the values their declarations say.
THEOREM LifecycleTypes == Spec => []Types
<1>1. IInv => Types
  BY DEF IInv
<1> QED BY <1>1, LifecycleInvariance, PTL

\* Started machines stay reachable while they run: StartedMachineIsReachable,
\* whatever the commands, failures, interrupts and repeated requests, unless
\* the utility has lost its forwards, or two commands found its port free.
THEOREM MachinesStayReachable == Spec => []StartedMachineIsReachable
<1>1. IInv => StartedMachineIsReachable
  BY DEF IInv, Reachable, StartedMachineIsReachable
<1> QED BY <1>1, LifecycleInvariance, PTL

-----------------------------------------------------------------------------
(* What a command that reports success has done.  It depends on the order  *)
(* of what is left to do: the middleware that starts a machine ends in the *)
(* request, a deletion in a prune, and a discarded state in a halt.        *)

\* These are only ever the last to do.
Lasts == {"Running?", "Suspended?", "ForwardPorts", "forward_ports"}

Order(s) ==
  \A i \in 1 .. Len(s) :
    /\ s[i] \in Lasts => i = Len(s)
    /\ s[i] \in Ends => i = Len(s) - 1 /\ s[Len(s)] = "PruneForwardedPorts"
    /\ s[i] = "Boot" => s[Len(s)] = "ForwardPorts"
    /\ s[i] = "DiscardSuspendedState" => i < Len(s)

Forwarders == {"ForwardPorts", "forward_ports"}

\* The port was in nobody's use when it was chosen, and is not ours since.
Chosen(m) ==
  Elements(Todo(m)) \cap Forwarders # {} =>
    \/ "HandleForwardedPortCollisions" \in Elements(Todo(m))
    \/ /\ proc[m].port \in Ports
       /\ "ForwardPorts" \in Elements(Todo(m)) => fwds[proc[m].port] # m

\* A machine that was deleted stays so, and the prune takes its forwards, but
\* for those that no prune takes.
Destroyed(m) ==
  proc[m].did = "delete" =>
    /\ ~vm[m].created /\ Elements(Todo(m)) \subseteq {"PruneForwardedPorts"}
    /\ Todo(m) = <<>> => \A p \in Ports : fwds[p] = m => Stuck(p)

\* A machine that was booted is forwarded, or will be before the end.
Booted(m) ==
  proc[m].did = "boot" =>
    /\ vm[m].power \in {"off", "on"}
    /\ vm[m].power = "on" =>
         vm[m].port # None \/ (Todo(m) # <<>> /\ Todo(m)[Len(Todo(m))] \in Forwarders)

Halting == {"DiscardSuspendedState", "Running?Halt", "GracefulHalt", "Halt"}

\* A halt first discards what is suspended and then stops what runs.
Halted(m) ==
  proc[m].did = "halt" =>
    /\ Elements(Todo(m)) \subseteq Halting
    /\ State(m) = "suspended" => At(m, "DiscardSuspendedState")
    /\ Todo(m) = <<>> => State(m) # "running" \/ vm[m].power = "late"

\* What runs is not suspended.
Awake(m) == IsOn(m) => ~vm[m].vmss

Facts(m) == Awake(m) /\ Order(Todo(m)) /\ Chosen(m) /\ Destroyed(m) /\ Booted(m) /\ Halted(m)

JInv == \A m \in Machines : Facts(m)

\* Forwards go to these owners or stay, stuck if they were.
Stays(owners) ==
  \A q \in Ports : \/ fwds'[q] \in owners
                   \/ fwds'[q] = fwds[q] /\ (Stuck(q) => Stuck(q)')

\* A step of m or its machine touches nobody else's.
Aside(m) ==
  /\ \A n \in Machines \ {m} : proc'[n] = proc[n] /\ vm'[n] = vm[n]
  /\ Stays({None, m})

\* So the facts of the others stay.
LEMMA OthersKeepFacts ==
  ASSUME JInv, NEW m \in Machines, Aside(m), Facts(m)'
  PROVE  JInv'
<1> SUFFICES ASSUME NEW n \in Machines, n # m PROVE Facts(n)'
  BY DEF JInv
<1>1. proc'[n] = proc[n] /\ vm'[n] = vm[n] /\ n # None
  BY CommandsAssumption DEF Aside
<1>2. \A q \in Ports : fwds'[q] = n => fwds[q] = n /\ (Stuck(q) => Stuck(q)')
  BY <1>1 DEF Aside, Stays
<1>3. Todo(n)' = Todo(n) /\ State(n)' = State(n) /\ At(n, "DiscardSuspendedState")' = At(n, "DiscardSuspendedState")
      /\ IsOn(n)' = IsOn(n)
  BY <1>1 DEF Todo, State, At, IsOn
<1>4. Facts(n)
  BY DEF JInv
<1>5. Awake(n)' /\ Order(Todo(n))'
  BY <1>1, <1>3, <1>4 DEF Facts, Awake, Order
<1>6. Chosen(n)'
  BY <1>1, <1>2, <1>3, <1>4 DEF Facts, Chosen
<1>7. Destroyed(n)'
  BY <1>1, <1>2, <1>3, <1>4 DEF Facts, Destroyed
<1>8. Booted(n)'
  BY <1>1, <1>3, <1>4 DEF Facts, Booted
<1>9. Halted(n)'
  BY <1>1, <1>3, <1>4 DEF Facts, Halted
<1> QED BY <1>5, <1>6, <1>7, <1>8, <1>9 DEF Facts

\* A branch that keeps the order.
Ready(x, steps) ==
  /\ steps \in Seq(Middleware)
  /\ \A i \in 1 .. Len(steps) :
       /\ steps[i] \in Lasts => x \in Lasts /\ i = Len(steps)
       /\ steps[i] \in Ends => x = "Destroy" /\ i = Len(steps)
       /\ steps[i] = "Boot" => x \in Lasts /\ steps[Len(steps)] = "ForwardPorts"
       /\ steps[i] = "DiscardSuspendedState" => i < Len(steps)
       /\ steps[i] = "ForwardPorts" => "HandleForwardedPortCollisions" \in Elements(steps)
       /\ steps[i] = "forward_ports" => x = "ForwardPorts"
  /\ x = "ForwardPorts" => steps # <<>> /\ steps[Len(steps)] = "forward_ports"

\* What is left after a branch, place by place.
LEMMA Places ==
  ASSUME NEW s \in Seq(Middleware), NEW t \in Seq(Middleware), t # <<>>
  PROVE  /\ Len(s \o Tail(t)) = Len(s) + Len(t) - 1
         /\ Len(s) \in Nat /\ Len(t) \in Nat \ {0} /\ Head(t) = t[1]
         /\ \A i \in 1 .. Len(s) : (s \o Tail(t))[i] = s[i]
         /\ \A i \in 1 .. Len(s \o Tail(t)) :
              i > Len(s) => (s \o Tail(t))[i] = t[i - Len(s) + 1] /\ i - Len(s) + 1 \in 2 .. Len(t)
<1>1. /\ Tail(t) \in Seq(Middleware) /\ Len(Tail(t)) = Len(t) - 1 /\ Len(t) \in Nat \ {0}
      /\ \A i \in 1 .. Len(t) - 1 : Tail(t)[i] = t[i + 1]
      /\ Head(t) = t[1]
  OBVIOUS
<1>2. /\ s \o Tail(t) \in Seq(Middleware) /\ Len(s \o Tail(t)) = Len(s) + Len(t) - 1 /\ Len(s) \in Nat
      /\ \A i \in 1 .. Len(s \o Tail(t)) :
           (s \o Tail(t))[i] = IF i <= Len(s) THEN s[i] ELSE Tail(t)[i - Len(s)]
  BY <1>1
<1>3. ASSUME NEW i \in 1 .. Len(s \o Tail(t)), i > Len(s)
      PROVE  (s \o Tail(t))[i] = t[i - Len(s) + 1] /\ i - Len(s) + 1 \in 2 .. Len(t)
  BY <1>1, <1>2, <1>3
<1> QED BY <1>1, <1>2, <1>3

\* The last index of a branch of a places before the rest of b places.
LEMMA LastIndex ==
  ASSUME NEW a \in Nat, NEW b \in Nat, NEW c \in Nat, b # 0, b # 1, c = a + b - 1
  PROVE  c > a /\ c \in 1 .. c /\ c - a + 1 = b
OBVIOUS

\* The last place.
LEMMA LastPlace ==
  ASSUME NEW s \in Seq(Middleware), NEW t \in Seq(Middleware), t # <<>>
  PROVE  LET u == s \o Tail(t)
         IN /\ Len(t) # 1 => u # <<>> /\ u[Len(u)] = t[Len(t)]
            /\ Len(t) = 1 /\ s # <<>> => u # <<>> /\ u[Len(u)] = s[Len(s)]
<1> DEFINE u == s \o Tail(t)
<1>1. /\ Len(u) = Len(s) + Len(t) - 1 /\ Len(s) \in Nat /\ Len(t) \in Nat \ {0}
      /\ \A i \in 1 .. Len(s) : u[i] = s[i]
      /\ \A i \in 1 .. Len(u) : i > Len(s) => u[i] = t[i - Len(s) + 1]
  BY Places
<1>2. u \in Seq(Middleware)
  BY BranchElements
<1> HIDE DEF u
<1>3. ASSUME Len(t) # 1 PROVE u # <<>> /\ u[Len(u)] = t[Len(t)]
  <2>1. Len(s) \in Nat /\ Len(t) \in Nat /\ Len(t) # 0 /\ Len(u) \in Nat /\ Len(u) = Len(s) + Len(t) - 1
    BY <1>1, <1>2
  <2>2. Len(u) \in 1 .. Len(u) /\ Len(u) > Len(s) /\ Len(u) - Len(s) + 1 = Len(t)
    BY <1>3, <2>1, LastIndex
  <2> QED BY <1>1, <1>2, <2>2
<1>4. ASSUME Len(t) = 1, s # <<>> PROVE u # <<>> /\ u[Len(u)] = s[Len(s)]
  <2>1. Len(s) > 0 /\ Len(u) = Len(s)
    BY <1>1, <1>4
  <2> QED BY <1>1, <1>2, <2>1
<1> QED BY <1>3, <1>4 DEF u

\* What the order says of one place.
LEMMA OrderAt ==
  ASSUME NEW s, Order(s), NEW i \in 1 .. Len(s)
  PROVE  /\ s[i] \in Lasts => i = Len(s)
         /\ s[i] \in Ends => i = Len(s) - 1 /\ s[Len(s)] = "PruneForwardedPorts"
         /\ s[i] = "Boot" => s[Len(s)] = "ForwardPorts"
         /\ s[i] = "DiscardSuspendedState" => i < Len(s)
BY DEF Order

\* The order is kept.
LEMMA OrderStep ==
  ASSUME NEW x, NEW steps, Ready(x, steps), NEW t \in Seq(Middleware), t # <<>>, Head(t) = x, Order(t)
  PROVE  Order(steps \o Tail(t))
<1> DEFINE u == steps \o Tail(t)
<1>1. /\ Len(u) = Len(steps) + Len(t) - 1 /\ Len(steps) \in Nat /\ Len(t) \in Nat \ {0} /\ t[1] = x
      /\ \A i \in 1 .. Len(steps) : u[i] = steps[i]
      /\ \A i \in 1 .. Len(u) : i > Len(steps) => u[i] = t[i - Len(steps) + 1] /\ i - Len(steps) + 1 \in 2 .. Len(t)
  BY Places DEF Ready
<1> HIDE DEF u
<1>2. Len(t) > 1 => u[Len(u)] = t[Len(t)]
  BY <1>1
<1>3. Len(t) = 1 => Len(u) = Len(steps) /\ \A i \in 1 .. Len(u) : u[i] = steps[i]
  BY <1>1
<1>9. 1 \in 1 .. Len(t)
  BY <1>1
<1>4. x \in Lasts => Len(t) = 1
  BY <1>1, <1>9, OrderAt
<1>5. ASSUME x \in Ends PROVE Len(t) = 2 /\ t[2] = "PruneForwardedPorts"
  <2>1. 1 = Len(t) - 1 /\ t[Len(t)] = "PruneForwardedPorts"
    BY <1>1, <1>5, <1>9, OrderAt
  <2>2. Len(t) \in Nat
    BY <1>1
  <2>3. Len(t) = 2
    BY <2>1, <2>2
  <2> QED BY <2>1, <2>3
<1> SUFFICES ASSUME NEW i \in 1 .. Len(u)
             PROVE  /\ u[i] \in Lasts => i = Len(u)
                    /\ u[i] \in Ends => i = Len(u) - 1 /\ u[Len(u)] = "PruneForwardedPorts"
                    /\ u[i] = "Boot" => u[Len(u)] = "ForwardPorts"
                    /\ u[i] = "DiscardSuspendedState" => i < Len(u)
  BY DEF u, Order
<1>6. CASE i <= Len(steps)
  <2>1. u[i] = steps[i] /\ i \in 1 .. Len(steps)
    BY <1>1, <1>6
  <2>2. u[i] \in Lasts => i = Len(u)
    BY <1>3, <1>4, <2>1 DEF Ready
  <2>3. ASSUME u[i] \in Ends PROVE i = Len(u) - 1 /\ u[Len(u)] = "PruneForwardedPorts"
    <3>1. x = "Destroy" /\ i = Len(steps)
      BY <2>1, <2>3 DEF Ready
    <3>2. Len(t) = 2 /\ t[2] = "PruneForwardedPorts"
      BY <1>5, <3>1 DEF Ends
    <3> QED BY <1>1, <1>2, <3>1, <3>2
  <2>4. u[i] = "Boot" => u[Len(u)] = "ForwardPorts"
    BY <1>1, <1>3, <1>4, <2>1 DEF Ready
  <2>5. u[i] = "DiscardSuspendedState" => i < Len(u)
    BY <1>1, <2>1 DEF Ready
  <2> QED BY <2>2, <2>3, <2>4, <2>5
<1>7. CASE i > Len(steps)
  <2> DEFINE j == i - Len(steps) + 1
  <2>1. u[i] = t[j] /\ j \in 2 .. Len(t) /\ u[Len(u)] = t[Len(t)]
    BY <1>1, <1>2, <1>7
  <2>2. /\ t[j] \in Lasts => j = Len(t)
        /\ t[j] \in Ends => j = Len(t) - 1 /\ t[Len(t)] = "PruneForwardedPorts"
        /\ t[j] = "Boot" => t[Len(t)] = "ForwardPorts"
        /\ t[j] = "DiscardSuspendedState" => j < Len(t)
    <3>1. j \in 1 .. Len(t)
      BY <1>1, <2>1
    <3> HIDE DEF j
    <3> QED BY <3>1, OrderAt
  <2> QED BY <1>1, <1>7, <2>1, <2>2
<1> QED BY <1>1, <1>6, <1>7

\* The choice of a port is kept, or made.
LEMMA ChosenStep ==
  ASSUME IInv, NEW m \in Machines, NEW x, NEW steps, Goes(m, x, steps), Ready(x, steps),
         Order(Todo(m)), Chosen(m),
         \A q \in Ports : fwds'[q] \in {fwds[q], None} \/ x = "forward_ports",
         IF x = "HandleForwardedPortCollisions"
         THEN proc'[m].port \in Ports /\ fwds'[proc'[m].port] # m ELSE proc'[m].port = proc[m].port
  PROVE  Chosen(m)'
<1> DEFINE t == Todo(m)
           u == steps \o Tail(t)
<1>1. t \in Seq(Middleware) /\ t # <<>> /\ Head(t) = x /\ steps \in Seq(Middleware) /\ Todo(m)' = u
  BY DEF IInv, Types, Process, Goes, At, Todo, Ready
<1>2. /\ Elements(u) \subseteq Elements(steps) \cup Rest(t)
      /\ Rest(t) \subseteq Elements(t) /\ x \in Elements(t)
  BY <1>1, BranchElements
<1>3. Elements(steps) \cup Rest(t) \subseteq Elements(u) /\ Elements(t) \subseteq Rest(t) \cup {x}
      /\ (x \in Lasts => Rest(t) = {})
  <2>1. /\ Len(u) = Len(steps) + Len(t) - 1 /\ Len(steps) \in Nat /\ Len(t) \in Nat \ {0} /\ t[1] = x
        /\ \A i \in 1 .. Len(steps) : u[i] = steps[i]
        /\ \A i \in 1 .. Len(u) : i > Len(steps) => u[i] = t[i - Len(steps) + 1]
    BY <1>1, Places
  <2> HIDE DEF u, t
  <2>2. Elements(steps) \subseteq Elements(u)
    BY <2>1 DEF Elements
  <2>3. ASSUME NEW i \in 2 .. Len(t) PROVE t[i] \in Elements(u)
    <3>1. Len(steps) + i - 1 \in 1 .. Len(u) /\ Len(steps) + i - 1 > Len(steps)
      BY <2>1
    <3>2. u[Len(steps) + i - 1] = t[i]
      BY <2>1, <3>1
    <3> QED BY <3>1, <3>2 DEF Elements
  <2>4. Elements(t) \subseteq Rest(t) \cup {x}
    BY <2>1 DEF Elements, Rest
  <2>5. x \in Lasts => Rest(t) = {}
    BY <2>1 DEF Order, Rest, t
  <2> QED BY <2>2, <2>3, <2>4, <2>5 DEF Rest
<1> HIDE DEF u, t
<1>4. /\ "ForwardPorts" \in Elements(steps) => "HandleForwardedPortCollisions" \in Elements(steps)
      /\ "forward_ports" \in Elements(steps) => x = "ForwardPorts"
  BY DEF Ready, Elements
<1> SUFFICES ASSUME Elements(u) \cap Forwarders # {}, "HandleForwardedPortCollisions" \notin Elements(u)
             PROVE  /\ proc'[m].port \in Ports
                    /\ "ForwardPorts" \in Elements(u) => fwds'[proc'[m].port] # m
  BY <1>1 DEF Chosen
<1>5. Elements(t) \cap Forwarders # {}
  BY <1>2, <1>3, <1>4 DEF Forwarders
<1>6. CASE x = "HandleForwardedPortCollisions"
  BY <1>6
<1>7. CASE x # "HandleForwardedPortCollisions"
  <2>1. "HandleForwardedPortCollisions" \notin Elements(t)
    BY <1>3, <1>7
  <2>2. proc[m].port \in Ports /\ ("ForwardPorts" \in Elements(t) => fwds[proc[m].port] # m)
    BY <1>5, <2>1 DEF Chosen, t
  <2>3. ASSUME "ForwardPorts" \in Elements(u) PROVE fwds'[proc[m].port] # m
    <3>1. "ForwardPorts" \in Rest(t)
      BY <1>2, <1>3, <1>4, <2>3
    <3>2. x # "forward_ports"
      BY <1>3, <3>1 DEF Lasts
    <3>3. m # None
      BY CommandsAssumption
    <3> QED BY <1>2, <2>2, <3>1, <3>2, <3>3
  <2> QED BY <1>7, <2>2, <2>3
<1> QED BY <1>6, <1>7

\* A middleware that can turn a machine off but not on.
Mild(m) ==
  /\ vm' = [vm EXCEPT ![m] = vm'[m]]
  /\ vm'[m].power \in {"off", vm[m].power}
  /\ vm'[m].power # "off" => vm'[m].port = vm[m].port /\ (vm'[m].vmss => vm[m].vmss)

\* Forwards go, but none is made.
Releases == Stays({None})

\* Nobody's forward changes, and none that is not released.
LEMMA StaysPut == ASSUME UNCHANGED <<fwds, entry>>, NEW owners PROVE Stays(owners)
BY DEF Stays, Stuck

\* A lost file, a deletion and a device release forwards.
LEMMA ReleasesStep ==
  ASSUME IInv, NEW done, Pruning(done) \/ AddingDevice
  PROVE  Releases
<1>1. ASSUME NEW lines, FileIsLost(NoFwds, lines, {}) PROVE Releases
  BY <1>1 DEF FileIsLost, NoFwds, Releases, Stays
<1>2. ASSUME NEW ports \in SUBSET Ports, Deleting(ports) PROVE Releases
  BY <1>2 DEF Deleting, Releases, Stays, Stuck, IInv, Types
<1>3. CASE Pruning(done)
  <2>1. PICK spared \in SUBSET {n \in Machines : vm[n].created} :
          LET unused == Unused({n \in Machines : State(n) = "running"} \cup spared)
          IN \/ \E ports \in SUBSET unused :
                  (done \/ driver = "simple" => ports = unused) /\ Deleting(ports)
             \/ \E lines \in {{}, unused} : FileIsLost(NoFwds, lines, {})
    BY <1>3 DEF Pruning
  <2>2. Unused({n \in Machines : State(n) = "running"} \cup spared) \subseteq Ports
    BY DEF Unused
  <2> QED BY <1>1, <1>2, <2>1, <2>2
<1>4. CASE AddingDevice
  <2>1. CASE FileIsLost(NoFwds, {}, {})
    BY <1>1, <2>1
  <2>2. CASE ~FileIsLost(NoFwds, {}, {})
    <3>1. /\ driver = "vmrest over simple" /\ fwds' \in {fwds, NoFwds}
          /\ \A p \in Ports : entry'[p] \in Unnamed(fwds'[p], entry[p])
      BY <1>4, <2>2 DEF AddingDevice
    <3>2. \A p \in Ports : Stuck(p) => entry[p] = "nameless"
      BY <3>1 DEF Stuck, IInv, Types, Entry
    <3>3. \A p \in Ports : fwds'[p] \in {fwds[p], None}
      BY <3>1 DEF NoFwds
    <3>4. ASSUME NEW p \in Ports, fwds'[p] # None, Stuck(p) PROVE Stuck(p)'
      <4>1. entry'[p] \in Unnamed(fwds'[p], entry[p]) /\ entry[p] = "nameless"
        BY <3>1, <3>2, <3>4
      <4>2. entry'[p] = "nameless"
        BY <3>4, <4>1 DEF Unnamed
      <4> QED BY <4>2 DEF Stuck
    <3> QED BY <3>3, <3>4 DEF Releases, Stays
  <2> QED BY <2>1, <2>2
<1> QED BY <1>3, <1>4

\* A request releases forwards too, and makes that of its machine.
LEMMA RequestStays ==
  ASSUME IInv, NEW m \in Machines, NEW done \in BOOLEAN, Forwarding(m, done)
  PROVE  Stays({None, m})
<1> DEFINE p == proc[m].port
           relieved == IF done THEN {m} ELSE {}
<1>1. CASE FileIsLost([NoFwds EXCEPT ![p] = m], {p}, relieved)
  BY <1>1 DEF FileIsLost, NoFwds, Stays
<1>2. CASE ~FileIsLost([NoFwds EXCEPT ![p] = m], {p}, relieved)
  <2>1. /\ fwds' = [fwds EXCEPT ![p] = m]
        /\ entry' = [entry EXCEPT ![p] = Added(p)] \/ entry' = [entry EXCEPT ![p] = "managed"]
    BY <1>2 DEF Forwarding
  <2>2. \A q \in Ports : fwds'[q] = m \/ (fwds'[q] = fwds[q] /\ entry'[q] = entry[q])
    BY <2>1 DEF IInv, Types
  <2> QED BY <2>2 DEF Stays, Stuck
<1> QED BY <1>1, <1>2

\* A booted machine is still going to be forwarded.
LEMMA BootedStep ==
  ASSUME IInv, NEW m \in Machines, NEW x, NEW steps, Goes(m, x, steps), Ready(x, steps),
         Order(Todo(m)), Booted(m), proc'[m].did \in {proc[m].did, "delete"}, Mild(m), x # "forward_ports"
  PROVE  Booted(m)'
<1> DEFINE t == Todo(m)
           u == steps \o Tail(t)
<1>1. t \in Seq(Middleware) /\ t # <<>> /\ Head(t) = x /\ steps \in Seq(Middleware) /\ Todo(m)' = u
  BY DEF IInv, Types, Process, Goes, At, Todo, Ready
<1>2. t[1] = x
  BY <1>1
<1>3. /\ Len(t) # 1 => u # <<>> /\ u[Len(u)] = t[Len(t)]
      /\ Len(t) = 1 /\ steps # <<>> => u # <<>> /\ u[Len(u)] = steps[Len(steps)]
  BY <1>1, LastPlace
<1> HIDE DEF t, u
<1>4. ASSUME t[Len(t)] \in Forwarders PROVE u # <<>> /\ u[Len(u)] \in Forwarders
  <2>1. CASE Len(t) # 1
    BY <1>3, <1>4, <2>1
  <2>2. CASE Len(t) = 1
    <3>1. x = "ForwardPorts"
      BY <1>2, <1>4, <2>2 DEF Forwarders
    <3>2. steps # <<>> /\ steps[Len(steps)] = "forward_ports"
      BY <3>1 DEF Ready
    <3> QED BY <1>3, <2>2, <3>2 DEF Forwarders
  <2> QED BY <2>1, <2>2
<1> QED BY <1>1, <1>4 DEF Booted, Mild, t

\* What most middleware does to its machine is mild.
LEMMA MildStep ==
  ASSUME IInv, NEW m \in Machines,
         \/ Discarding(m) \/ Stopping(m) \/ Suspending(m) \/ Reverting(m)
         \/ Removing(m) \/ Cloning(m) \/ UNCHANGED vm
  PROVE  Mild(m)
<1> DEFINE v == vm[m]
<1>1. vm \in [Machines -> Vm] /\ v \in Vm
  BY DEF IInv, Types
<1>2. /\ Off(v).power = "off" /\ [Off(v) EXCEPT !.vmss = TRUE].power = "off"
      /\ \A b \in BOOLEAN : [Off(v) EXCEPT !.vmss = b].power = "off"
  BY <1>1 DEF Off, Vm
<1>3. NoVm.power = "off" /\ [NoVm EXCEPT !.created = TRUE].power = "off"
  BY DEF NoVm
<1>4. [v EXCEPT !.vmss = FALSE].power = v.power /\ [v EXCEPT !.vmss = FALSE].port = v.port
      /\ ~[v EXCEPT !.vmss = FALSE].vmss
  BY <1>1 DEF Vm
<1>5. CASE Discarding(m)
  <2>1. vm' = [vm EXCEPT ![m] = [v EXCEPT !.vmss = FALSE]]
    BY <1>5 DEF Discarding
  <2> QED BY <1>1, <1>4, <2>1 DEF Mild
<1>6. CASE Stopping(m) \/ Suspending(m) \/ UNCHANGED vm
  <2>1. vm' = [vm EXCEPT ![m] = Off(v)] \/ vm' = [vm EXCEPT ![m] = v]
        \/ vm' = [vm EXCEPT ![m] = [Off(v) EXCEPT !.vmss = TRUE]]
    BY <1>1, <1>6 DEF Stopping, Suspending
  <2> QED BY <1>1, <1>2, <2>1 DEF Mild
<1>7. CASE Reverting(m)
  <2>1. PICK b \in BOOLEAN : vm' = [vm EXCEPT ![m] = [Off(v) EXCEPT !.vmss = b]]
    BY <1>7 DEF Reverting
  <2> QED BY <1>1, <1>2, <2>1 DEF Mild
<1>8. CASE Removing(m) \/ Cloning(m)
  BY <1>1, <1>3, <1>8 DEF Removing, Cloning, Mild
<1> QED BY <1>5, <1>6, <1>7, <1>8

\* The facts that do not depend on the purpose of the command.
LEMMA CommonFacts ==
  ASSUME IInv, JInv, NEW m \in Machines, NEW x, NEW steps, Goes(m, x, steps), Ready(x, steps),
         Mild(m), Releases, x # "forward_ports", proc'[m].did \in {proc[m].did, "delete"},
         IF x = "HandleForwardedPortCollisions"
         THEN proc'[m].port \in Ports /\ fwds'[proc'[m].port] # m ELSE proc'[m].port = proc[m].port
  PROVE  Aside(m) /\ Awake(m)' /\ Order(Todo(m))' /\ Chosen(m)' /\ Booted(m)'
<1>1. Facts(m)
  BY DEF JInv
<1>2. Aside(m)
  BY DEF Aside, Goes, Mild, Releases, Stays, IInv, Types
<1>3. Awake(m)'
  BY <1>1 DEF Facts, Awake, IsOn, Mild
<1>4. Order(Todo(m))'
  <2>1. Todo(m) \in Seq(Middleware) /\ Todo(m) # <<>> /\ Head(Todo(m)) = x
        /\ Todo(m)' = steps \o Tail(Todo(m))
    BY DEF IInv, Types, Process, Goes, At, Todo
  <2>2. Order(steps \o Tail(Todo(m)))
    BY <1>1, <2>1, OrderStep DEF Facts
  <2> QED BY <2>1, <2>2 DEF Order
<1>5. Chosen(m)'
  BY <1>1, ChosenStep DEF Facts, Releases, Stays
<1>6. Booted(m)'
  BY <1>1, BootedStep DEF Facts
<1> QED BY <1>2, <1>3, <1>4, <1>5, <1>6

\* What is at work is still to do.
LEMMA AtElement ==
  ASSUME Types, NEW m \in Machines, NEW x, At(m, x)
  PROVE  /\ Todo(m) \in Seq(Middleware) /\ Todo(m) # <<>> /\ Head(Todo(m)) = x
         /\ Todo(m)[1] = x /\ 1 \in 1 .. Len(Todo(m)) /\ x \in Elements(Todo(m))
<1>1. Todo(m) \in Seq(Middleware) /\ Todo(m) # <<>> /\ Head(Todo(m)) = x
  BY DEF Types, Process, At, Todo
<1>2. 1 \in 1 .. Len(Todo(m)) /\ Todo(m)[1] = x
  BY <1>1
<1> QED BY <1>1, <1>2 DEF Elements

\* A command that comes to this is no halt, and has not deleted the machine.
LEMMA OtherPurpose ==
  ASSUME IInv, JInv, NEW m \in Machines, NEW x, At(m, x)
  PROVE  /\ x \notin Halting => proc[m].did # "halt"
         /\ x # "PruneForwardedPorts" => proc[m].did # "delete"
<1>1. x \in Elements(Todo(m))
  BY AtElement DEF IInv
<1> QED BY <1>1 DEF JInv, Facts, Halted, Destroyed

\* Middleware of neither kind leaves the facts be.
LEMMA PlainFacts ==
  ASSUME IInv, JInv, NEW m \in Machines, NEW x, NEW steps, Goes(m, x, steps), Ready(x, steps),
         Mild(m), Releases, proc'[m].did = proc[m].did,
         x \notin Halting, x # "PruneForwardedPorts", x # "forward_ports",
         IF x = "HandleForwardedPortCollisions"
         THEN proc'[m].port \in Ports /\ fwds'[proc'[m].port] # m ELSE proc'[m].port = proc[m].port
  PROVE  JInv'
<1>1. Aside(m) /\ Awake(m)' /\ Order(Todo(m))' /\ Chosen(m)' /\ Booted(m)'
  BY CommonFacts
<1>2. proc[m].did # "halt" /\ proc[m].did # "delete"
  BY OtherPurpose DEF Goes
<1>3. Destroyed(m)' /\ Halted(m)'
  BY <1>2 DEF Destroyed, Halted
<1> QED BY <1>1, <1>3, OthersKeepFacts DEF Facts

\* What is left after a middleware of a halt: a halt's middleware.
LEMMA HaltingLeft ==
  ASSUME IInv, NEW m \in Machines, NEW x, NEW steps, Goes(m, x, steps), steps \in Seq(Middleware),
         Elements(Todo(m)) \subseteq Halting, Elements(steps) \subseteq Halting
  PROVE  Elements(Todo(m))' \subseteq Halting
<1>1. Todo(m) \in Seq(Middleware) /\ Todo(m) # <<>> /\ Todo(m)' = steps \o Tail(Todo(m))
  BY DEF IInv, Types, Process, Goes, At, Todo
<1>2. Elements(steps \o Tail(Todo(m))) \subseteq Elements(steps) \cup Elements(Todo(m))
  BY <1>1, BranchElements
<1>3. Elements(Todo(m))' = Elements(Todo(m)')
  BY DEF Elements
<1> QED BY <1>1, <1>2, <1>3

\* The middleware of a halt, when it serves one, leaves the machine off.
LEMMA HaltingFacts ==
  ASSUME IInv, JInv, NEW m \in Machines, NEW x \in Halting, NEW steps, Goes(m, x, steps), Ready(x, steps),
         Mild(m), UNCHANGED <<fwds, entry>>, proc'[m].did = proc[m].did, proc'[m].port = proc[m].port,
         Elements(steps) \subseteq Halting,
         proc[m].did = "halt" =>
           /\ State(m)' # "suspended"
           /\ Todo(m)' = <<>> => State(m)' # "running" \/ vm'[m].power = "late"
  PROVE  JInv'
<1>1. Aside(m) /\ Awake(m)' /\ Order(Todo(m))' /\ Chosen(m)' /\ Booted(m)'
  BY CommonFacts DEF Halting, Releases, Stays, Stuck
<1>2. proc[m].did # "delete"
  BY OtherPurpose DEF Goes, Halting
<1>3. Destroyed(m)'
  BY <1>2 DEF Destroyed
<1>4. Halted(m)'
  BY HaltingLeft DEF Halted, Ready, JInv, Facts
<1> QED BY <1>1, <1>3, <1>4, OthersKeepFacts DEF Facts

\* The branches of one or two keep the order.
LEMMA ReadyBranches ==
  /\ \A x : x # "ForwardPorts" => Ready(x, <<>>)
  /\ Ready("Running?Halt", <<"GracefulHalt">>)
  /\ Ready("GracefulHalt", <<"DiscardSuspendedState", "Halt">>)
  /\ Ready("Running?", <<"PruneForwardedPorts", "Suspended?">>)
  /\ Ready("Destroy", <<"Delete">>)
  /\ Ready("Import", <<"Imported">>)
  /\ Ready("ForwardPorts", <<"forward_ports">>)
<1>1. \A x : x # "ForwardPorts" => Ready(x, <<>>)
  BY NoElements DEF Ready
<1>2. ASSUME NEW x, NEW e \in Middleware \ Lasts, e # "Boot", e # "DiscardSuspendedState",
             e \in Ends => x = "Destroy", x # "ForwardPorts"
      PROVE  Ready(x, <<e>>)
  <2>1. <<e>> \in Seq(Middleware) /\ Len(<<e>>) = 1 /\ \A i \in 1 .. 1 : <<e>>[i] = e /\ i = 1
    BY <1>2
  <2> QED BY <1>2, <2>1 DEF Ready, Lasts
<1>3. /\ "GracefulHalt" \in Middleware \ Lasts /\ "Delete" \in Middleware \ Lasts
      /\ "Imported" \in Middleware \ Lasts
  BY DEF Middleware, Lasts
<1>4. Ready("Running?Halt", <<"GracefulHalt">>) /\ Ready("Destroy", <<"Delete">>) /\ Ready("Import", <<"Imported">>)
  BY <1>2, <1>3 DEF Ends
<1>5. Ready("ForwardPorts", <<"forward_ports">>)
  <2>1. <<"forward_ports">> \in Seq(Middleware)
    BY DEF Middleware
  <2> QED BY <2>1 DEF Ready, Lasts, Ends
<1>6. Ready("GracefulHalt", <<"DiscardSuspendedState", "Halt">>)
  <2>1. <<"DiscardSuspendedState", "Halt">> \in Seq(Middleware)
    BY DEF Middleware
  <2> QED BY <2>1 DEF Ready, Lasts, Ends
<1>7. Ready("Running?", <<"PruneForwardedPorts", "Suspended?">>)
  <2>1. <<"PruneForwardedPorts", "Suspended?">> \in Seq(Middleware)
    BY DEF Middleware
  <2> QED BY <2>1 DEF Ready, Lasts, Ends
<1> QED BY <1>1, <1>4, <1>5, <1>6, <1>7

\* So does the branch that starts a machine.
LEMMA ReadyStart ==
  ASSUME NEW first \in {<<>>, <<"Configure">>}, NEW steps,
         steps = first \o <<"HandleForwardedPortCollisions", "Boot", "WaitForAddress", "ForwardPorts">>
  PROVE  Ready("Suspended?", steps)
<1> DEFINE four == <<"HandleForwardedPortCollisions", "Boot", "WaitForAddress", "ForwardPorts">>
<1>1. /\ four \in Seq(Middleware) /\ Len(four) = 4
      /\ four[1] = "HandleForwardedPortCollisions" /\ four[2] = "Boot"
      /\ four[3] = "WaitForAddress" /\ four[4] = "ForwardPorts"
  BY DEF Middleware
<1>2. /\ first \in Seq(Middleware) /\ Len(first) \in {0, 1}
      /\ \A i \in 1 .. Len(first) : first[i] = "Configure"
  <2>1. CASE first = <<>>
    <3>1. first \in Seq(Middleware) /\ Len(first) = 0
      BY <2>1
    <3> QED BY <3>1
  <2>2. CASE first = <<"Configure">>
    <3>1. first \in Seq(Middleware) /\ Len(first) = 1 /\ first[1] = "Configure"
      BY <2>2 DEF Middleware
    <3> QED BY <3>1
  <2> QED BY <2>1, <2>2
<1> HIDE DEF four
<1>3. /\ steps \in Seq(Middleware) /\ Len(steps) = Len(first) + 4
      /\ \A i \in 1 .. Len(steps) : steps[i] = IF i <= Len(first) THEN first[i] ELSE four[i - Len(first)]
  BY <1>1, <1>2 DEF four
<1>4. /\ \A i \in 1 .. Len(steps) :
           \/ steps[i] \in {"Configure", "HandleForwardedPortCollisions", "Boot", "WaitForAddress"}
           \/ steps[i] = "ForwardPorts" /\ i = Len(steps)
      /\ steps[Len(steps)] = "ForwardPorts" /\ steps[Len(first) + 1] = "HandleForwardedPortCollisions"
  <2>1. Len(first) \in {0, 1}
    BY <1>2
  <2>2. \A i \in 1 .. Len(steps) : i > Len(first) => steps[i] = four[i - Len(first)] /\ i - Len(first) \in 1 .. 4
    BY <1>3, <2>1
  <2>3. \A i \in 1 .. Len(steps) : i <= Len(first) => steps[i] = "Configure"
    BY <1>2, <1>3, <2>1
  <2>4. four[4] = "ForwardPorts" /\ four[1] = "HandleForwardedPortCollisions"
        /\ \A j \in 1 .. 3 : four[j] \in {"HandleForwardedPortCollisions", "Boot", "WaitForAddress"}
    BY DEF four
  <2>5. \A i \in 1 .. Len(steps) : i > Len(first) => i - Len(first) \in 1 .. 3 \/ i = Len(steps)
    BY <1>3, <2>1
  <2>6. \A i \in 1 .. Len(steps) : i > Len(first) =>
          \/ steps[i] \in {"HandleForwardedPortCollisions", "Boot", "WaitForAddress"}
          \/ steps[i] = "ForwardPorts" /\ i = Len(steps)
    <3>1. Len(steps) - Len(first) = 4
      BY <1>3, <2>1
    <3> QED BY <2>2, <2>4, <2>5, <3>1
  <2>7. /\ Len(steps) \in 1 .. Len(steps) /\ Len(steps) > Len(first) /\ Len(steps) - Len(first) = 4
        /\ Len(first) + 1 \in 1 .. Len(steps) /\ Len(first) + 1 > Len(first) /\ (Len(first) + 1) - Len(first) = 1
    BY <1>3, <2>1
  <2>8. steps[Len(steps)] = "ForwardPorts" /\ steps[Len(first) + 1] = "HandleForwardedPortCollisions"
    BY <2>2, <2>4, <2>7
  <2>9. \A i \in 1 .. Len(steps) : i <= Len(first) \/ i > Len(first)
    BY <2>1
  <2> QED BY <2>3, <2>6, <2>8, <2>9
<1>5. "HandleForwardedPortCollisions" \in Elements(steps)
  BY <1>2, <1>3, <1>4 DEF Elements
<1> QED BY <1>3, <1>4, <1>5 DEF Ready, Lasts, Ends

\* A middleware that only says what follows, and is plain.
LEMMA ThenFacts ==
  ASSUME IInv, JInv, NEW m \in Machines, NEW x, NEW steps, At(m, x), Ready(x, steps), Then(m, steps),
         Mild(m), Releases, x \notin Halting, x # "PruneForwardedPorts", x # "forward_ports",
         x # "HandleForwardedPortCollisions"
  PROVE  JInv'
<1>1. Goes(m, x, steps) /\ proc'[m].port = proc[m].port
  BY ThenGoes DEF IInv, Ready
<1>2. proc'[m].did = proc[m].did
  BY DEF Then, IInv, Types, Process
<1> QED BY <1>1, <1>2, PlainFacts

\* The plain middleware.
LEMMA PlainSteps ==
  ASSUME IInv, JInv, NEW m \in Machines,
         \/ StartUnlessRunning(m) \/ ConfigureUnlessSuspended(m) \/ Suspend(m) \/ Destroy(m)
         \/ Export(m) \/ SnapshotRestore(m) \/ Imported(m) \/ Configure(m) \/ WaitForAddress(m)
         \/ ForwardPorts(m)
  PROVE  JInv'
<1>1. Mild(m) /\ Releases
  <2>1. CASE Configure(m) /\ AddingDevice
    <3>1. UNCHANGED vm /\ Releases
      BY <2>1, ReleasesStep DEF AddingDevice
    <3> QED BY <3>1, MildStep
  <2>2. CASE ~(Configure(m) /\ AddingDevice)
    <3>1. UNCHANGED utilityVars
      BY <2>2 DEF StartUnlessRunning, ConfigureUnlessSuspended, Suspend, Destroy, Export, SnapshotRestore,
                  Imported, Configure, WaitForAddress, ForwardPorts, Suspending, Reverting
    <3>2. Mild(m)
      BY <2>2, MildStep DEF StartUnlessRunning, ConfigureUnlessSuspended, Suspend, Destroy, Export,
                            SnapshotRestore, Imported, Configure, WaitForAddress, ForwardPorts
    <3> QED BY <3>1, <3>2, StaysPut DEF Releases
  <2> QED BY <2>1, <2>2
<1>2. ASSUME NEW x, At(m, x), Done(m), x # "ForwardPorts", x \notin Halting, x # "PruneForwardedPorts",
             x # "forward_ports", x # "HandleForwardedPortCollisions"
      PROVE  JInv'
  BY <1>1, <1>2, ReadyBranches, ThenFacts DEF Done
<1>3. CASE StartUnlessRunning(m)
  BY <1>1, <1>3, ReadyBranches, ThenFacts DEF StartUnlessRunning, Halting
<1>4. CASE ConfigureUnlessSuspended(m)
  <2> DEFINE four == <<"HandleForwardedPortCollisions", "Boot", "WaitForAddress", "ForwardPorts">>
  <2>1. PICK first \in {<<>>, <<"Configure">>} : At(m, "Suspended?") /\ Then(m, first \o four)
    BY <1>4 DEF ConfigureUnlessSuspended
  <2>2. Ready("Suspended?", first \o four)
    BY <2>1, ReadyStart
  <2> HIDE DEF four
  <2> QED BY <1>1, <2>1, <2>2, ThenFacts DEF Halting
<1>5. CASE Destroy(m)
  BY <1>1, <1>5, ReadyBranches, ThenFacts DEF Destroy, Halting
<1>6. CASE Suspend(m) \/ Export(m) \/ SnapshotRestore(m) \/ Imported(m) \/ Configure(m) \/ WaitForAddress(m)
  BY <1>2, <1>6 DEF Suspend, Export, SnapshotRestore, Imported, Configure, WaitForAddress, Halting
<1>7. CASE ForwardPorts(m)
  BY <1>1, <1>7, ReadyBranches, ThenFacts DEF ForwardPorts, Halting
<1> QED BY <1>3, <1>4, <1>5, <1>6, <1>7

\* The plain middleware that notes more of the process.
LEMMA PlainNotes ==
  ASSUME IInv, JInv, NEW m \in Machines, Import(m) \/ HandleForwardedPortCollisions(m)
  PROVE  JInv'
<1>1. proc[m] \in Process /\ Todo(m) = proc[m].todo
  BY DEF IInv, Types, Todo
<1>2. CASE Import(m)
  <2> DEFINE p == [proc[m] EXCEPT !.todo = <<"Imported">> \o Tail(@), !.imported = TRUE]
  <2>1. Todo(m) # <<>> /\ At(m, "Import")
    BY <1>2 DEF Import, At, Todo
  <2>2. <<"Imported">> \o Tail(Todo(m)) \in Seq(Middleware)
    BY <1>1, <2>1 DEF Process, Middleware
  <2>3. /\ p \in Process /\ p.todo = <<"Imported">> \o Tail(Todo(m)) /\ proc' = [proc EXCEPT ![m] = p]
        /\ p.did = proc[m].did /\ p.port = proc[m].port
    BY <1>1, <1>2, <2>1, <2>2 DEF Import, Process
  <2> HIDE DEF p
  <2>4. proc'[m] = p
    BY <2>3 DEF IInv, Types
  <2>5. Goes(m, "Import", <<"Imported">>)
    BY <2>1, <2>3, <2>4 DEF Goes
  <2>6. Mild(m) /\ Releases
    BY <1>2, MildStep, StaysPut DEF Import, Cloning, Releases
  <2> QED BY <2>3, <2>4, <2>5, <2>6, ReadyBranches, PlainFacts DEF Halting
<1>3. CASE HandleForwardedPortCollisions(m)
  <2>1. PICK q \in Ports \ PortsInUse : proc' = [proc EXCEPT ![m].todo = Tail(@), ![m].port = q]
    BY <1>3, WorkloadType DEF HandleForwardedPortCollisions, IInv, Types
  <2> DEFINE p == [proc[m] EXCEPT !.todo = Tail(@), !.port = q]
  <2>2. Todo(m) # <<>> /\ At(m, "HandleForwardedPortCollisions")
    BY <1>3 DEF HandleForwardedPortCollisions, At, Todo
  <2>3. Tail(Todo(m)) \in Seq(Middleware) /\ <<>> \o Tail(Todo(m)) = Tail(Todo(m))
    BY <1>1, <2>2 DEF Process
  <2>4. /\ p \in Process /\ p.todo = <<>> \o Tail(Todo(m)) /\ proc' = [proc EXCEPT ![m] = p]
        /\ p.did = proc[m].did /\ p.port = q
    BY <1>1, <2>1, <2>3 DEF Process
  <2> HIDE DEF p
  <2>5. proc'[m] = p
    BY <2>4 DEF IInv, Types
  <2>6. Goes(m, "HandleForwardedPortCollisions", <<>>)
    BY <2>2, <2>4, <2>5 DEF Goes
  <2>7. Mild(m) /\ Releases /\ UNCHANGED fwds
    BY <1>3, MildStep, StaysPut DEF HandleForwardedPortCollisions, Releases
  <2>8. fwds[q] = None /\ None # m
    BY <2>1, CommandsAssumption DEF PortsInUse
  <2>9. Ready("HandleForwardedPortCollisions", <<>>)
    BY ReadyBranches
  <2> QED BY <2>4, <2>5, <2>6, <2>7, <2>8, <2>9, PlainFacts DEF Halting
<1> QED BY <1>2, <1>3

\* The middleware of a halt.
LEMMA HaltingSteps ==
  ASSUME IInv, JInv, NEW m \in Machines,
         HaltIfRunning(m) \/ DiscardSuspendedState(m) \/ GracefulHalt(m) \/ Halt(m)
  PROVE  JInv'
<1>1. Mild(m) /\ UNCHANGED <<fwds, entry>>
  BY MildStep DEF HaltIfRunning, DiscardSuspendedState, GracefulHalt, Halt, Discarding, Stopping
<1>2. ASSUME NEW x \in Halting, NEW steps, At(m, x), Then(m, steps), Ready(x, steps),
             Elements(steps) \subseteq Halting,
             proc[m].did = "halt" =>
               /\ State(m)' # "suspended"
               /\ Todo(m)' = <<>> => State(m)' # "running" \/ vm'[m].power = "late"
      PROVE  JInv'
  <2>1. Goes(m, x, steps) /\ proc'[m].port = proc[m].port
    BY <1>2, ThenGoes DEF IInv, Ready
  <2>2. proc'[m].did = proc[m].did
    BY <1>2 DEF Then, IInv, Types, Process
  <2> QED BY <1>1, <1>2, <2>1, <2>2, HaltingFacts
<1>3. /\ Elements(<<>>) = {} /\ Elements(<<"GracefulHalt">>) \subseteq Halting
      /\ Elements(<<"DiscardSuspendedState", "Halt">>) \subseteq Halting
  <2>1. "GracefulHalt" \in Middleware /\ "DiscardSuspendedState" \in Middleware /\ "Halt" \in Middleware
    BY DEF Middleware
  <2>2. Elements(<<"GracefulHalt">>) = {"GracefulHalt"}
    BY <2>1, One
  <2>3. Elements(<<"DiscardSuspendedState", "Halt">>) = {"DiscardSuspendedState", "Halt"}
    BY <2>1, Two
  <2> QED BY <2>2, <2>3, NoElements DEF Halting
<1>4. ASSUME proc[m].did = "halt", ~At(m, "DiscardSuspendedState") PROVE State(m) # "suspended"
  BY <1>4 DEF JInv, Facts, Halted
<1>5. Awake(m) /\ Order(Todo(m))
  BY DEF JInv, Facts
<1>6. ASSUME Stopping(m), State(m) # "suspended" PROVE State(m)' \notin {"suspended", "running"}
  BY <1>5, <1>6 DEF Stopping, State, IsOn, Off, Awake, IInv, Types, Vm
<1>7. CASE HaltIfRunning(m)
  <2> DEFINE steps == IF State(m) = "running" THEN <<"GracefulHalt">> ELSE <<>>
  <2>1. At(m, "Running?Halt") /\ Then(m, steps) /\ UNCHANGED vm
    BY <1>7 DEF HaltIfRunning
  <2>2. State(m)' = State(m)
    BY <2>1 DEF State, IsOn
  <2>3. Ready("Running?Halt", steps) /\ Elements(steps) \subseteq Halting /\ steps \in Seq(Middleware)
    BY <1>3, ReadyBranches DEF Ready
  <2>4. ASSUME State(m) = "running" PROVE Todo(m)' # <<>>
    <3>1. Todo(m)' = <<"GracefulHalt">> \o Tail(Todo(m)) /\ Todo(m) \in Seq(Middleware) /\ Todo(m) # <<>>
      BY <2>1, <2>4, AtElement DEF Then, Todo, IInv, Types
    <3>2. <<"GracefulHalt">> \in Seq(Middleware) /\ Tail(Todo(m)) \in Seq(Middleware)
      BY <3>1 DEF Middleware
    <3>3. Len(<<"GracefulHalt">> \o Tail(Todo(m))) > 0
      BY <3>2
    <3> QED BY <3>1, <3>3
  <2>5. ~At(m, "DiscardSuspendedState") /\ "Running?Halt" \in Halting
    BY <2>1 DEF At, Halting
  <2> HIDE DEF steps
  <2> QED BY <1>2, <1>4, <2>1, <2>2, <2>3, <2>4, <2>5
<1>8. CASE DiscardSuspendedState(m)
  <2>1. At(m, "DiscardSuspendedState") /\ Then(m, <<>>) /\ vm' = [vm EXCEPT ![m].vmss = FALSE]
    BY <1>8 DEF DiscardSuspendedState, Discarding, Done
  <2>2. State(m)' # "suspended"
    BY <2>1 DEF State, IInv, Types, Vm
  <2>3. Todo(m)' # <<>>
    <3>1. /\ Todo(m) \in Seq(Middleware) /\ Todo(m)[1] = "DiscardSuspendedState" /\ 1 \in 1 .. Len(Todo(m))
          /\ Todo(m) # <<>>
      BY <2>1, AtElement DEF IInv
    <3>2. 1 < Len(Todo(m))
      BY <1>5, <3>1, OrderAt
    <3>3. Todo(m)' = <<>> \o Tail(Todo(m))
      BY <2>1 DEF Then, Todo, IInv, Types
    <3>4. Tail(Todo(m)) \in Seq(Middleware) /\ Len(Tail(Todo(m))) = Len(Todo(m)) - 1
      BY <3>1
    <3>5. Tail(Todo(m)) # <<>>
      BY <3>2, <3>4
    <3> QED BY <3>3, <3>4, <3>5
  <2>4. Ready("DiscardSuspendedState", <<>>) /\ "DiscardSuspendedState" \in Halting
    BY ReadyBranches DEF Halting
  <2> QED BY <1>2, <1>3, <2>1, <2>2, <2>3, <2>4
<1>9. ASSUME NEW x \in {"GracefulHalt", "Halt"}, At(m, x), Stopping(m), Done(m) PROVE JInv'
  <2>1. ~At(m, "DiscardSuspendedState") /\ x \in Halting /\ Ready(x, <<>>)
    BY <1>9, ReadyBranches DEF At, Halting
  <2> QED BY <1>2, <1>3, <1>4, <1>6, <1>9, <2>1 DEF Done
<1>10. CASE GracefulHalt(m)
  <2>1. CASE UNCHANGED <<vm, utilityVars>> /\ Then(m, <<"DiscardSuspendedState", "Halt">>)
    <3> DEFINE steps == <<"DiscardSuspendedState", "Halt">>
    <3>1. At(m, "GracefulHalt") /\ State(m)' = State(m)
      BY <1>10, <2>1 DEF GracefulHalt, State, IsOn
    <3>2. Todo(m)' = steps \o Tail(Todo(m)) /\ Todo(m) \in Seq(Middleware) /\ Todo(m) # <<>>
      BY <2>1, <3>1, AtElement DEF Then, Todo, IInv, Types
    <3>3. steps \in Seq(Middleware) /\ Tail(Todo(m)) \in Seq(Middleware) /\ Len(steps) = 2
      BY <3>2 DEF Middleware
    <3>4. Len(steps \o Tail(Todo(m))) > 0
      BY <3>3
    <3>5. Todo(m)' # <<>>
      BY <3>2, <3>4
    <3>6. ~At(m, "DiscardSuspendedState") /\ "GracefulHalt" \in Halting
      BY <3>1 DEF At, Halting
    <3> HIDE DEF steps
    <3>7. Ready("GracefulHalt", steps) /\ Elements(steps) \subseteq Halting /\ Then(m, steps)
      BY <1>3, <2>1, ReadyBranches DEF steps
    <3> QED BY <1>2, <1>4, <3>1, <3>5, <3>6, <3>7
  <2> QED BY <1>9, <1>10, <2>1 DEF GracefulHalt
<1>11. CASE Halt(m)
  BY <1>9, <1>11 DEF Halt
<1> QED BY <1>7, <1>8, <1>10, <1>11

\* A prune takes the forwards of a machine that was deleted.
LEMMA PruneFacts ==
  ASSUME IInv, JInv, NEW m \in Machines, PruneForwardedPorts(m)
  PROVE  JInv'
<1>1. At(m, "PruneForwardedPorts") /\ Pruning(TRUE) /\ Then(m, <<>>)
  BY DEF PruneForwardedPorts, Done
<1>2. Ready("PruneForwardedPorts", <<>>) /\ <<>> \in Seq(Middleware)
  BY ReadyBranches DEF Ready
<1>3. Goes(m, "PruneForwardedPorts", <<>>) /\ proc'[m].port = proc[m].port
  BY <1>1, <1>2, ThenGoes DEF IInv
<1>4. proc'[m].did = proc[m].did
  BY <1>1 DEF Then, IInv, Types, Process
<1>5. Mild(m) /\ Releases
  BY <1>1, MildStep, ReleasesStep DEF Pruning
<1>6. Aside(m) /\ Awake(m)' /\ Order(Todo(m))' /\ Chosen(m)' /\ Booted(m)'
  BY <1>2, <1>3, <1>4, <1>5, CommonFacts
<1>7. Halted(m)'
  <2>1. proc[m].did # "halt"
    BY <1>1, OtherPurpose DEF Halting
  <2> QED BY <1>4, <2>1 DEF Halted
<1>8. Destroyed(m)'
  <2> SUFFICES ASSUME proc[m].did = "delete"
               PROVE  /\ ~vm[m].created /\ Elements(Todo(m)') \subseteq {"PruneForwardedPorts"}
                      /\ \A p \in Ports : fwds'[p] = m => Stuck(p)'
    BY <1>1, <1>4 DEF Destroyed, Pruning, Elements
  <2>1. ~vm[m].created /\ Elements(Todo(m)) \subseteq {"PruneForwardedPorts"}
    BY DEF JInv, Facts, Destroyed
  <2>2. Elements(Todo(m)') \subseteq {"PruneForwardedPorts"}
    <3>1. Todo(m) \in Seq(Middleware) /\ Todo(m) # <<>> /\ Todo(m)' = <<>> \o Tail(Todo(m))
      BY <1>3, AtElement DEF IInv, Goes, Todo
    <3> QED BY <1>2, <2>1, <3>1, BranchElements, NoElements
  <2>3. State(m) # "running"
    BY <2>1 DEF State
  <2>4. m # None
    BY CommandsAssumption
  <2>5. ASSUME NEW p \in Ports, fwds'[p] = m PROVE Stuck(p)'
    <3>1. PICK spared \in SUBSET {n \in Machines : vm[n].created} :
            LET unused == Unused({n \in Machines : State(n) = "running"} \cup spared)
            IN Deleting(unused) \/ \E lines \in {{}, unused} : FileIsLost(NoFwds, lines, {})
      BY <1>1 DEF Pruning
    <3> DEFINE unused == Unused({n \in Machines : State(n) = "running"} \cup spared)
    <3>2. Deleting(unused)
      BY <2>4, <2>5, <3>1 DEF FileIsLost, NoFwds
    <3>3. fwds[p] = m /\ (p \in unused => entry[p] = "twice")
      BY <2>4, <2>5, <3>2 DEF Deleting
    <3>4. p \notin unused => entry[p] = "nameless"
      BY <2>1, <2>3, <2>4, <3>3 DEF Unused
    <3>5. Stuck(p)
      BY <3>3, <3>4 DEF Stuck
    <3> QED BY <1>5, <2>4, <2>5, <3>5 DEF Releases, Stays
  <2> QED BY <2>1, <2>2, <2>5
<1> QED BY <1>6, <1>7, <1>8, OthersKeepFacts DEF Facts

\* The process of m ends a middleware and notes what it did.
Notes(m, did) ==
  proc' = [proc EXCEPT ![m].todo = Tail(@), ![m].did = did]

\* A middleware that only notes what the command has done.
LEMMA NotesGoes ==
  ASSUME Types, NEW m \in Machines, NEW x, At(m, x), NEW did \in {"delete", "boot"}, Notes(m, did)
  PROVE  /\ Goes(m, x, <<>>) /\ Todo(m)' = <<>> \o Tail(Todo(m))
         /\ proc'[m].did = did /\ proc'[m].port = proc[m].port
<1> DEFINE p == [proc[m] EXCEPT !.todo = Tail(@), !.did = did]
<1>1. Todo(m) \in Seq(Middleware) /\ Todo(m) # <<>> /\ proc[m] \in Process /\ Todo(m) = proc[m].todo
  BY AtElement DEF Types, Todo
<1>2. Tail(Todo(m)) \in Seq(Middleware) /\ <<>> \o Tail(Todo(m)) = Tail(Todo(m))
  BY <1>1
<1>3. /\ p \in Process /\ p.todo = <<>> \o Tail(Todo(m)) /\ proc' = [proc EXCEPT ![m] = p]
      /\ p.did = did /\ p.port = proc[m].port
  BY <1>1, <1>2 DEF Process, Notes
<1> HIDE DEF p
<1>4. proc'[m] = p
  BY <1>3 DEF Types
<1> QED BY <1>3, <1>4 DEF Goes, Todo

\* A deletion leaves the prune to do, and nothing else.
LEMMA DeleteFacts ==
  ASSUME IInv, JInv, NEW m \in Machines, Delete(m)
  PROVE  JInv'
<1>1. At(m, "Delete") /\ Removing(m) /\ Notes(m, "delete")
  BY DEF Delete, Notes
<1>2. /\ Goes(m, "Delete", <<>>) /\ Todo(m)' = <<>> \o Tail(Todo(m))
      /\ proc'[m].did = "delete" /\ proc'[m].port = proc[m].port
  BY <1>1, NotesGoes DEF IInv
<1>3. Ready("Delete", <<>>) /\ Mild(m) /\ Releases
  BY <1>1, ReadyBranches, MildStep, StaysPut DEF Removing, Releases
<1>4. Aside(m) /\ Awake(m)' /\ Order(Todo(m))' /\ Chosen(m)' /\ Booted(m)'
  BY <1>2, <1>3, CommonFacts
<1>5. Halted(m)'
  BY <1>2 DEF Halted
<1>6. /\ Todo(m) \in Seq(Middleware) /\ Todo(m) # <<>> /\ Todo(m)[1] = "Delete" /\ 1 \in 1 .. Len(Todo(m))
      /\ Order(Todo(m))
  BY <1>1, AtElement DEF IInv, JInv, Facts
<1>7. 1 = Len(Todo(m)) - 1 /\ Todo(m)[Len(Todo(m))] = "PruneForwardedPorts"
  BY <1>6, OrderAt DEF Ends
<1>8. Len(Todo(m)) = 2
  BY <1>6, <1>7
<1>9. Len(Tail(Todo(m))) = 1 /\ Tail(Todo(m)) \in Seq(Middleware) /\ Tail(Todo(m))[1] = Todo(m)[2]
  BY <1>6, <1>8
<1>10. Todo(m)' = Tail(Todo(m))
  BY <1>2, <1>9
<1>11. Todo(m)' # <<>> /\ Elements(Todo(m)') \subseteq {"PruneForwardedPorts"}
  <2> DEFINE u == Tail(Todo(m))
  <2>1. Len(u) = 1 /\ u[1] = "PruneForwardedPorts" /\ u # <<>>
    <3>1. Len(u) = 1 /\ u[1] = Todo(m)[2] /\ Todo(m)[2] = "PruneForwardedPorts"
      BY <1>7, <1>8, <1>9
    <3> HIDE DEF u
    <3>2. u # <<>>
      BY <3>1
    <3> QED BY <3>1, <3>2
  <2> HIDE DEF u
  <2>2. Elements(u) \subseteq {"PruneForwardedPorts"}
    BY <2>1 DEF Elements
  <2> QED BY <1>10, <2>1, <2>2 DEF u
<1>12. ~vm'[m].created
  BY <1>1 DEF Removing, NoVm, IInv, Types
<1>13. Destroyed(m)'
  BY <1>11, <1>12 DEF Destroyed, Elements
<1> QED BY <1>4, <1>5, <1>13, OthersKeepFacts DEF Facts

\* A machine that is started is going to be forwarded.
LEMMA BootFacts ==
  ASSUME IInv, JInv, NEW m \in Machines, Boot(m)
  PROVE  JInv'
<1>1. At(m, "Boot") /\ Booting(m) /\ Notes(m, "boot")
  BY DEF Boot, Notes
<1>2. /\ Goes(m, "Boot", <<>>) /\ Todo(m)' = <<>> \o Tail(Todo(m))
      /\ proc'[m].did = "boot" /\ proc'[m].port = proc[m].port
  BY <1>1, NotesGoes DEF IInv
<1>3. Ready("Boot", <<>>) /\ <<>> \in Seq(Middleware)
  BY ReadyBranches DEF Ready
<1>4. Facts(m)
  BY DEF JInv
<1>5. /\ Todo(m) \in Seq(Middleware) /\ Todo(m) # <<>> /\ Head(Todo(m)) = "Boot"
      /\ Todo(m)[1] = "Boot" /\ 1 \in 1 .. Len(Todo(m)) /\ Order(Todo(m))
  BY <1>1, <1>4, AtElement DEF IInv, Facts
<1>6. vm'[m].power = "on" /\ ~vm'[m].vmss /\ \A n \in Machines \ {m} : vm'[n] = vm[n]
  BY <1>1 DEF Booting, IInv, Types, Vm
<1>7. Aside(m) /\ Awake(m)'
  BY <1>1, <1>2, <1>6, StaysPut DEF Aside, Awake, Booting, Goes, IInv, Types
<1>8. Order(Todo(m))'
  <2>1. Order(<<>> \o Tail(Todo(m)))
    BY <1>3, <1>5, OrderStep
  <2> QED BY <1>2, <2>1 DEF Order
<1>9. Chosen(m)'
  BY <1>1, <1>2, <1>3, <1>4, ChosenStep DEF Facts, Booting
<1>10. Booted(m)'
  <2>1. Todo(m)[Len(Todo(m))] = "ForwardPorts"
    BY <1>5, OrderAt
  <2>2. Len(Todo(m)) # 1
    BY <1>5, <2>1
  <2>3. Todo(m)' # <<>> /\ Todo(m)'[Len(Todo(m)')] = "ForwardPorts"
    BY <1>2, <1>3, <1>5, <2>1, <2>2, LastPlace
  <2> QED BY <1>6, <2>3 DEF Booted, Forwarders
<1>11. Destroyed(m)' /\ Halted(m)'
  BY <1>2 DEF Destroyed, Halted
<1> QED BY <1>7, <1>8, <1>9, <1>10, <1>11, OthersKeepFacts DEF Facts

\* Who is about to forward has nothing else to do and a port.
LEMMA AtRequest ==
  ASSUME IInv, JInv, NEW m \in Machines, At(m, "forward_ports")
  PROVE  /\ Len(Todo(m)) = 1 /\ Elements(Todo(m)) = {"forward_ports"} /\ Todo(m) \in Seq(Middleware)
         /\ proc[m].port \in Ports /\ proc[m].did # "halt" /\ proc[m].did # "delete"
<1>1. /\ Todo(m) \in Seq(Middleware) /\ Todo(m)[1] = "forward_ports" /\ 1 \in 1 .. Len(Todo(m))
      /\ Order(Todo(m))
  BY AtElement DEF IInv, JInv, Facts
<1>2. Len(Todo(m)) = 1
  BY <1>1, OrderAt DEF Lasts
<1>3. Elements(Todo(m)) = {"forward_ports"}
  BY <1>1, <1>2 DEF Elements
<1>4. proc[m].port \in Ports
  BY <1>3 DEF JInv, Facts, Chosen, Forwarders
<1>5. proc[m].did # "halt" /\ proc[m].did # "delete"
  BY OtherPurpose DEF Halting
<1> QED BY <1>1, <1>2, <1>3, <1>4, <1>5

\* A sequence of no length is empty.
LEMMA NoLength ==
  ASSUME NEW s \in Seq(Middleware), Len(s) = 0
  PROVE  s = <<>>
OBVIOUS

\* After the only one there is none.
LEMMA TailOfOne ==
  ASSUME NEW s \in Seq(Middleware), Len(s) = 1
  PROVE  <<>> \o Tail(s) = <<>>
<1>1. s # <<>>
  OBVIOUS
<1>2. Tail(s) \in Seq(Middleware) /\ Len(Tail(s)) = 0
  BY <1>1
<1>3. Tail(s) = <<>>
  BY <1>2, NoLength
<1>4. <<>> \o <<>> = <<>>
  OBVIOUS
<1> QED BY <1>3, <1>4

\* The request forwards a machine that is on.
LEMMA RequestFacts ==
  ASSUME IInv, JInv, NEW m \in Machines, ForwardThePorts(m) \/ ForwardAgain(m)
  PROVE  JInv'
<1>1. At(m, "forward_ports") /\ (Forwarding(m, TRUE) \/ Forwarding(m, FALSE)) /\ Facts(m)
  BY DEF ForwardThePorts, ForwardAgain, JInv
<1>2. /\ Len(Todo(m)) = 1 /\ Elements(Todo(m)) = {"forward_ports"} /\ Todo(m) \in Seq(Middleware)
      /\ proc[m].port \in Ports /\ proc[m].did # "halt" /\ proc[m].did # "delete"
  BY <1>1, AtRequest
<1>3. Stays({None, m})
  BY <1>1, RequestStays
<1>4. CASE ForwardAgain(m)
  <2>1. UNCHANGED <<vm, proc>>
    BY <1>4 DEF ForwardAgain
  <2>2. Aside(m) /\ Todo(m)' = Todo(m) /\ Awake(m)'
    BY <1>1, <1>3, <2>1 DEF Aside, Todo, Facts, Awake, IsOn
  <2>3. Order(Todo(m))' /\ Booted(m)'
    BY <1>1, <2>1, <2>2 DEF Facts, Order, Booted
  <2>4. Chosen(m)' /\ Destroyed(m)' /\ Halted(m)'
    BY <1>2, <2>1, <2>2 DEF Chosen, Elements, Destroyed, Halted
  <2> QED BY <2>2, <2>3, <2>4, OthersKeepFacts DEF Facts
<1>5. CASE ForwardThePorts(m)
  <2>1. Then(m, <<>>) /\ vm' = [vm EXCEPT ![m].port = IF IsOn(m) THEN proc[m].port ELSE None]
    BY <1>5 DEF ForwardThePorts, Done
  <2>2. Todo(m)' = <<>> \o Tail(Todo(m)) /\ proc'[m].did = proc[m].did
        /\ \A n \in Machines \ {m} : proc'[n] = proc[n]
    BY <2>1 DEF Then, Todo, IInv, Types, Process
  <2>3. Todo(m)' = <<>>
    BY <1>2, <2>2, TailOfOne
  <2>4. /\ vm'[m].power = vm[m].power /\ vm'[m].vmss = vm[m].vmss
        /\ vm'[m].port = IF IsOn(m) THEN proc[m].port ELSE None
        /\ \A n \in Machines \ {m} : vm'[n] = vm[n]
    BY <2>1 DEF IInv, Types, Vm
  <2>5. Aside(m) /\ Awake(m)'
    BY <1>1, <1>3, <2>2, <2>4 DEF Aside, Facts, Awake, IsOn
  <2>6. Order(Todo(m))' /\ Chosen(m)'
    <3>1. Order(<<>>) /\ Elements(<<>>) = {}
      BY NoElements DEF Order
    <3> QED BY <2>3, <3>1 DEF Order, Chosen, Elements
  <2>7. Booted(m)'
    <3>1. proc[m].port # None
      BY <1>2, CommandsAssumption
    <3> QED BY <1>1, <2>2, <2>4, <3>1 DEF Facts, Booted, IsOn
  <2>8. Destroyed(m)' /\ Halted(m)'
    BY <1>2, <2>2 DEF Destroyed, Halted
  <2> QED BY <2>5, <2>6, <2>7, <2>8, OthersKeepFacts DEF Facts
<1> QED BY <1>4, <1>5

\* Nothing before the last part of a pipeline depends on the order.
LEMMA OrderJoined ==
  ASSUME NEW s \in Seq(Middleware), NEW t \in Seq(Middleware), t # <<>>, Order(t),
         Elements(s) \cap (Lasts \cup Ends \cup {"Boot"}) = {}
  PROVE  Order(s \o t)
<1> DEFINE u == s \o t
<1>1. /\ Len(s) \in Nat /\ Len(t) \in Nat /\ Len(t) > 0 /\ Len(u) = Len(s) + Len(t)
      /\ \A i \in 1 .. Len(s) + Len(t) : u[i] = IF i <= Len(s) THEN s[i] ELSE t[i - Len(s)]
  OBVIOUS
<1> HIDE DEF u
<1>2. u[Len(u)] = t[Len(t)]
  BY <1>1
<1> SUFFICES ASSUME NEW i \in 1 .. Len(u)
             PROVE  /\ u[i] \in Lasts => i = Len(u)
                    /\ u[i] \in Ends => i = Len(u) - 1 /\ u[Len(u)] = "PruneForwardedPorts"
                    /\ u[i] = "Boot" => u[Len(u)] = "ForwardPorts"
                    /\ u[i] = "DiscardSuspendedState" => i < Len(u)
  BY DEF u, Order
<1>3. CASE i <= Len(s)
  <2>1. u[i] \in Elements(s) /\ i < Len(u)
    BY <1>1, <1>3 DEF Elements
  <2> QED BY <2>1
<1>4. CASE i > Len(s)
  <2> DEFINE j == i - Len(s)
  <2>1. u[i] = t[j] /\ j \in 1 .. Len(t) /\ i = j + Len(s) /\ j \in Nat
    BY <1>1, <1>4
  <2> HIDE DEF j
  <2>2. /\ t[j] \in Lasts => j = Len(t)
        /\ t[j] \in Ends => j = Len(t) - 1 /\ t[Len(t)] = "PruneForwardedPorts"
        /\ t[j] = "Boot" => t[Len(t)] = "ForwardPorts"
        /\ t[j] = "DiscardSuspendedState" => j < Len(t)
    BY <2>1, OrderAt
  <2> QED BY <1>1, <1>2, <2>1, <2>2
<1> QED BY <1>1, <1>3, <1>4

\* The pipelines keep the order, and none has a forward in it.
LEMMA OrderedPipelines ==
  ASSUME NEW cmd \in Command
  PROVE  Order(Pipeline(cmd)) /\ Elements(Pipeline(cmd)) \cap Forwarders = {}
<1>1. /\ HaltAction \in Seq(Middleware) /\ StartAction \in Seq(Middleware)
      /\ Elements(HaltAction) = {"DiscardSuspendedState", "Running?Halt"}
      /\ Elements(StartAction) = {"Running?"} /\ StartAction # <<>>
  <2>1. "DiscardSuspendedState" \in Middleware /\ "Running?Halt" \in Middleware
        /\ "Running?" \in Middleware
    BY DEF Middleware
  <2> QED BY <2>1, One, Two DEF HaltAction, StartAction
<1>2. Order(HaltAction) /\ Order(StartAction)
  <2>1. Order(HaltAction)
    <3>1. Len(HaltAction) = 2 /\ HaltAction[1] = "DiscardSuspendedState" /\ HaltAction[2] = "Running?Halt"
      BY DEF HaltAction
    <3> QED BY <3>1 DEF Order, Lasts, Ends
  <2>2. Order(StartAction)
    <3>1. Len(StartAction) = 1 /\ StartAction[1] = "Running?"
      BY DEF StartAction
    <3> QED BY <3>1 DEF Order, Lasts, Ends
  <2> QED BY <2>1, <2>2
<1>3. CASE cmd \in {"up", "resume", "halt"}
  <2>1. Pipeline(cmd) = HaltAction \/ Pipeline(cmd) = StartAction
    BY <1>3 DEF Pipeline
  <2> QED BY <1>1, <1>2, <2>1 DEF Forwarders
<1>4. ASSUME NEW s \in Seq(Middleware), NEW t \in Seq(Middleware), t # <<>>, Order(t),
             Elements(s) \cap (Lasts \cup Ends \cup {"Boot"}) = {}, Elements(t) \cap Forwarders = {},
             Pipeline(cmd) = s \o t
      PROVE  Order(Pipeline(cmd)) /\ Elements(Pipeline(cmd)) \cap Forwarders = {}
  <2>1. Order(s \o t)
    BY <1>4, OrderJoined
  <2>2. Elements(s \o t) = Elements(s) \cup Elements(t)
    BY <1>4, Joined
  <2>3. Elements(s) \cap Forwarders = {}
    BY <1>4 DEF Lasts, Forwarders
  <2> QED BY <1>4, <2>1, <2>2, <2>3
<1>5. Elements(HaltAction) \cap (Lasts \cup Ends \cup {"Boot"}) = {}
  BY <1>1 DEF Lasts, Ends
<1>6. CASE cmd = "suspend"
  <2> DEFINE s == <<"Suspend">>
  <2>1. Len(s) = 1 /\ s[1] = "Suspend" /\ Pipeline(cmd) = s
    BY <1>6 DEF Pipeline
  <2>2. Elements(s) = {"Suspend"}
    BY One DEF Middleware
  <2> HIDE DEF s
  <2>3. Order(s)
    BY <2>1 DEF Order, Lasts, Ends
  <2> QED BY <2>1, <2>2, <2>3 DEF Forwarders
<1>7. CASE cmd = "reload"
  <2>1. Pipeline(cmd) = HaltAction \o StartAction
    BY <1>7 DEF Pipeline
  <2> QED BY <1>1, <1>2, <1>4, <1>5, <2>1 DEF Forwarders
<1>8. CASE cmd \in {"destroy", "package"}
  <2> DEFINE t == IF cmd = "destroy" THEN <<"Destroy", "PruneForwardedPorts">>
                  ELSE <<"PruneForwardedPorts", "Export">>
  <2>1. "Destroy" \in Middleware /\ "PruneForwardedPorts" \in Middleware /\ "Export" \in Middleware
    BY DEF Middleware
  <2>2. /\ <<"Destroy", "PruneForwardedPorts">> \in Seq(Middleware)
        /\ Elements(<<"Destroy", "PruneForwardedPorts">>) = {"Destroy", "PruneForwardedPorts"}
        /\ <<"PruneForwardedPorts", "Export">> \in Seq(Middleware)
        /\ Elements(<<"PruneForwardedPorts", "Export">>) = {"PruneForwardedPorts", "Export"}
    BY <2>1, Two
  <2>3. t \in Seq(Middleware) /\ Elements(t) \subseteq {"Destroy", "PruneForwardedPorts", "Export"}
    BY <2>2
  <2>4. Len(t) = 2 /\ t[1] \in {"Destroy", "PruneForwardedPorts"} /\ t[2] \in {"PruneForwardedPorts", "Export"}
        /\ (t[1] = "Destroy" => t[2] = "PruneForwardedPorts")
    OBVIOUS
  <2>5. Pipeline(cmd) = HaltAction \o t
    BY <1>8 DEF Pipeline
  <2> HIDE DEF t
  <2>6. t # <<>>
    BY <2>4
  <2>7. Order(t)
    BY <2>4 DEF Order, Lasts, Ends
  <2>8. Elements(t) \cap Forwarders = {}
    BY <2>3 DEF Forwarders
  <2> QED BY <1>1, <1>4, <1>5, <2>3, <2>5, <2>6, <2>7, <2>8
<1>9. CASE cmd = "restore"
  <2> DEFINE s == <<"SnapshotRestore">>
  <2>1. s \in Seq(Middleware) /\ Elements(s) = {"SnapshotRestore"}
    BY One DEF Middleware
  <2>2. Pipeline(cmd) = s \o StartAction
    BY <1>9 DEF Pipeline
  <2> HIDE DEF s
  <2>3. Elements(s) \cap (Lasts \cup Ends \cup {"Boot"}) = {} /\ Elements(StartAction) \cap Forwarders = {}
    BY <1>1, <2>1 DEF Lasts, Ends, Forwarders
  <2> QED BY <1>1, <1>2, <1>4, <2>1, <2>2, <2>3
<1> QED BY <1>3, <1>6, <1>7, <1>8, <1>9 DEF Command

\* What a step may do to the machine of m and to the forwards.
Alone(m) ==
  /\ \A n \in Machines \ {m} : vm'[n] = vm[n]
  /\ Stays({None, m})
  /\ Awake(m)'

\* A middleware that is cut short does not do more.
LEMMA HalfwayAlone ==
  ASSUME IInv, JInv, NEW m \in Machines, Halfway(m)
  PROVE  Alone(m)
<1>1. Awake(m)
  BY DEF JInv, Facts
<1>2. CASE Mild(m) /\ Releases
  <2>1. Stays({None, m})
    BY <1>2 DEF Releases, Stays
  <2> QED BY <1>1, <1>2, <2>1 DEF Alone, Mild, Awake, IsOn, IInv, Types
<1>3. CASE Discarding(m) \/ Suspending(m) \/ Reverting(m) \/ Removing(m)
           \/ Pruning(FALSE) \/ AddingDevice \/ UNCHANGED <<vm, utilityVars>>
  <2>1. Mild(m)
    BY <1>3, MildStep DEF Pruning, AddingDevice
  <2>2. CASE Pruning(FALSE) \/ AddingDevice
    BY <1>2, <2>1, <2>2, ReleasesStep
  <2>3. CASE ~(Pruning(FALSE) \/ AddingDevice)
    <3>1. UNCHANGED utilityVars
      BY <1>3, <2>3 DEF Discarding, Suspending, Reverting, Removing
    <3> QED BY <1>2, <2>1, <3>1, StaysPut DEF Releases
  <2> QED BY <2>2, <2>3
<1>4. CASE Forwarding(m, FALSE) /\ UNCHANGED vm
  BY <1>1, <1>4, RequestStays DEF Alone, Awake, IsOn
<1>5. CASE Booting(m)
  BY <1>5, StaysPut DEF Alone, Booting, Awake, IInv, Types, Vm
<1>6. CASE vm' = [vm EXCEPT ![m].power = "starting"] /\ UNCHANGED utilityVars
  BY <1>6, StaysPut DEF Alone, Awake, IsOn, IInv, Types, Vm
<1> QED BY <1>3, <1>4, <1>5, <1>6 DEF Halfway

\* A process that begins anew, or ends.
LEMMA RestartFacts ==
  ASSUME IInv, JInv, NEW m \in Machines, NEW p \in Process, proc' = [proc EXCEPT ![m] = p], Alone(m),
         Order(p.todo), Elements(p.todo) \cap Forwarders = {}, p.did \in {"idle", "nothing", "halt"},
         p.did = "halt" => Halted(m)'
  PROVE  JInv'
<1>1. proc'[m] = p /\ Todo(m)' = p.todo /\ \A n \in Machines \ {m} : proc'[n] = proc[n]
  BY DEF IInv, Types, Todo
<1>2. Aside(m) /\ Awake(m)'
  BY <1>1 DEF Alone, Aside
<1>3. Order(Todo(m))' /\ Chosen(m)'
  BY <1>1 DEF Order, Chosen, Elements
<1>4. Destroyed(m)' /\ Booted(m)' /\ Halted(m)'
  BY <1>1 DEF Destroyed, Booted, Halted
<1> QED BY <1>2, <1>3, <1>4, OthersKeepFacts DEF Facts

\* A command ends, well or not.
LEMMA AbortFacts ==
  ASSUME IInv, JInv, NEW m \in Machines, Abort(m), Alone(m)
  PROVE  JInv'
<1>1. Idle \in Process /\ Idle.todo = <<>> /\ Idle.did = "idle"
  BY DEF Idle, Process
<1>2. Order(<<>>) /\ Elements(<<>>) = {}
  BY NoElements DEF Order
<1> QED BY <1>1, <1>2, RestartFacts DEF Abort

\* An import is undone.
LEMMA DestroyFacts ==
  ASSUME IInv, JInv, NEW m \in Machines, DestroyImport(m), Alone(m)
  PROVE  JInv'
<1> DEFINE p == [Idle EXCEPT !.did = "nothing", !.todo = Pipeline("destroy")]
<1>1. "destroy" \in Command
  BY DEF Command
<1>2. p \in Process /\ p.todo = Pipeline("destroy") /\ p.did = "nothing"
  BY <1>1, Pipelines DEF Idle, Process
<1>3. proc' = [proc EXCEPT ![m] = p]
  BY DEF DestroyImport
<1> HIDE DEF p
<1>4. Order(Pipeline("destroy")) /\ Elements(Pipeline("destroy")) \cap Forwarders = {}
  BY <1>1, OrderedPipelines
<1> QED BY <1>2, <1>3, <1>4, RestartFacts

\* A step that leaves the world alone.
LEMMA QuietAlone ==
  ASSUME JInv, NEW m \in Machines, UNCHANGED <<vm, fwds, entry>>
  PROVE  Alone(m)
BY StaysPut DEF JInv, Facts, Alone, Awake, IsOn

\* A command begins: a halt discards what is suspended first.
LEMMA BeginFacts ==
  ASSUME IInv, JInv, NEW m \in Machines, Begin(m)
  PROVE  JInv'
<1>1. PICK cmd \in workload.commands[m] :
        proc' = [proc EXCEPT ![m] =
          [Idle EXCEPT !.did = IF cmd = "halt" THEN "halt" ELSE "nothing",
                       !.todo = IF vm[m].created THEN Pipeline(cmd)
                                ELSE IF cmd = "up" THEN <<"Import">> \o StartAction ELSE <<>>]]
  BY DEF Begin
<1>2. cmd \in Command /\ UNCHANGED <<vm, fwds, entry>>
  BY WorkloadType DEF Begin, IInv, Types
<1> DEFINE did == IF cmd = "halt" THEN "halt" ELSE "nothing"
           imp == <<"Import">> \o StartAction
           todo == IF vm[m].created THEN Pipeline(cmd) ELSE IF cmd = "up" THEN imp ELSE <<>>
           p == [Idle EXCEPT !.did = did, !.todo = todo]
<1>3. imp \in Seq(Middleware) /\ Order(imp) /\ Elements(imp) \cap Forwarders = {}
  <2>1. <<"Import">> \in Seq(Middleware) /\ Elements(<<"Import">>) = {"Import"}
    BY One DEF Middleware
  <2>2. StartAction \in Seq(Middleware) /\ Elements(StartAction) = {"Running?"} /\ StartAction # <<>>
    BY One DEF Middleware, StartAction
  <2>3. Order(StartAction)
    <3>1. Len(StartAction) = 1 /\ StartAction[1] = "Running?"
      BY DEF StartAction
    <3> QED BY <3>1 DEF Order, Lasts, Ends
  <2> DEFINE s == <<"Import">>
  <2> HIDE DEF s
  <2>4. s \in Seq(Middleware) /\ Elements(s) = {"Import"}
    BY <2>1 DEF s
  <2>5. Elements(s) \cap (Lasts \cup Ends \cup {"Boot"}) = {}
    BY <2>4 DEF Lasts, Ends
  <2>6. Order(s \o StartAction) /\ s \o StartAction \in Seq(Middleware)
        /\ Elements(s \o StartAction) = Elements(s) \cup Elements(StartAction)
    BY <2>2, <2>3, <2>4, <2>5, OrderJoined, Joined
  <2>7. Elements(s \o StartAction) \cap Forwarders = {}
    BY <2>2, <2>4, <2>6 DEF Forwarders
  <2> QED BY <2>6, <2>7 DEF s
<1>4. Order(<<>>) /\ Elements(<<>>) = {} /\ <<>> \in Seq(Middleware)
  BY NoElements DEF Order
<1>5. todo \in Seq(Middleware) /\ Order(todo) /\ Elements(todo) \cap Forwarders = {}
  <2>1. CASE vm[m].created
    BY <1>2, <2>1, Pipelines, OrderedPipelines
  <2>2. CASE ~vm[m].created /\ cmd = "up"
    BY <1>3, <2>2
  <2>3. CASE ~vm[m].created /\ cmd # "up"
    BY <1>4, <2>3
  <2> QED BY <2>1, <2>2, <2>3
<1>6. ASSUME cmd = "halt"
      PROVE  todo = (IF vm[m].created THEN HaltAction ELSE <<>>)
  BY <1>6 DEF Pipeline
<1> HIDE DEF todo, did
<1>7. did \in {"nothing", "halt"} /\ (did = "halt" => cmd = "halt")
  BY DEF did
<1>8. p \in Process /\ p.todo = todo /\ p.did = did
  BY <1>5, <1>7 DEF Idle, Process
<1>9. proc' = [proc EXCEPT ![m] = p]
  BY <1>1 DEF todo, did
<1> HIDE DEF p
<1>10. ASSUME p.did = "halt" PROVE Halted(m)'
  <2>1. Todo(m)' = IF vm[m].created THEN HaltAction ELSE <<>>
    BY <1>6, <1>7, <1>8, <1>9, <1>10 DEF IInv, Types, Todo
  <2>2. /\ Elements(HaltAction) \subseteq Halting /\ HaltAction # <<>>
        /\ Head(HaltAction) = "DiscardSuspendedState"
    <3>1. "DiscardSuspendedState" \in Middleware /\ "Running?Halt" \in Middleware
      BY DEF Middleware
    <3>2. Elements(HaltAction) = {"DiscardSuspendedState", "Running?Halt"}
      BY <3>1, Two DEF HaltAction
    <3>3. HaltAction # <<>> /\ Head(HaltAction) = "DiscardSuspendedState"
      BY DEF HaltAction
    <3> QED BY <3>2, <3>3 DEF Halting
  <2>3. State(m)' = State(m) /\ Todo(m)' = proc'[m].todo
    BY <1>2 DEF State, IsOn, Todo
  <2>4. CASE vm[m].created
    <3>1. At(m, "DiscardSuspendedState")' /\ Todo(m)' # <<>>
      BY <2>1, <2>2, <2>3, <2>4 DEF At
    <3>2. Elements(Todo(m))' \subseteq Halting
      BY <2>1, <2>2, <2>4 DEF Elements
    <3> QED BY <3>1, <3>2 DEF Halted
  <2>5. CASE ~vm[m].created
    <3>1. State(m) = "not_created"
      BY <2>5 DEF State
    <3>2. Elements(Todo(m))' \subseteq Halting
      BY <1>4, <2>1, <2>5 DEF Elements
    <3> QED BY <2>3, <3>1, <3>2 DEF Halted
  <2> QED BY <2>4, <2>5
<1>11. Alone(m)
  BY <1>2, QuietAlone
<1> QED BY <1>5, <1>7, <1>8, <1>9, <1>10, <1>11, RestartFacts

\* Guests and late starts.
LEMMA GuestFacts ==
  ASSUME IInv, JInv, NEW m \in Machines, GuestStops(m) \/ StartComesThrough(m) \/ StartIsLost(m)
  PROVE  JInv'
<1>1. Facts(m) /\ UNCHANGED <<proc, utilityVars>>
  BY DEF JInv, GuestStops, StartComesThrough, StartIsLost
<1>2. /\ \A n \in Machines \ {m} : vm'[n] = vm[n]
      /\ vm'[m].created = vm[m].created
      /\ \/ vm'[m].power = "off" /\ vm'[m].vmss = vm[m].vmss
         \/ vm[m].power = "starting" /\ vm'[m].power = "late" /\ ~vm'[m].vmss
  BY DEF GuestStops, StartComesThrough, StartIsLost, Off, IInv, Types, Vm
<1>3. Todo(m)' = Todo(m) /\ At(m, "DiscardSuspendedState")' = At(m, "DiscardSuspendedState")
  BY <1>1 DEF Todo, At
<1>4. Aside(m) /\ Awake(m)'
  BY <1>1, <1>2, StaysPut DEF Aside, Awake, IsOn
<1>5. Order(Todo(m))' /\ Chosen(m)' /\ Destroyed(m)'
  <2>1. Order(Todo(m))'
    BY <1>1, <1>3 DEF Facts, Order
  <2>2. Chosen(m)'
    BY <1>1, <1>3 DEF Facts, Chosen, Elements
  <2>3. Destroyed(m)'
    BY <1>1, <1>2, <1>3 DEF Facts, Destroyed, Elements, Stuck
  <2> QED BY <2>1, <2>2, <2>3
<1>6. Booted(m)'
  BY <1>1, <1>2, <1>3 DEF Facts, Booted
<1>7. Halted(m)'
  <2>1. State(m)' = "suspended" => State(m) = "suspended"
    BY <1>1, <1>2 DEF State, IsOn, Facts, Awake
  <2>2. State(m)' # "running" \/ vm'[m].power = "late"
    BY <1>2 DEF State, IsOn
  <2> QED BY <1>1, <1>3, <2>1, <2>2 DEF Facts, Halted, Elements
<1> QED BY <1>4, <1>5, <1>6, <1>7, OthersKeepFacts DEF Facts

\* Every step keeps the facts.
LEMMA FactsInductive == IInv /\ JInv /\ [Next]_vars => JInv'
<1> SUFFICES ASSUME IInv, JInv, [Next]_vars PROVE JInv'
  OBVIOUS
<1>1. CASE UNCHANGED vars
  <2> SUFFICES ASSUME NEW m \in Machines PROVE Facts(m)'
    BY DEF JInv
  <2>1. /\ Facts(m) /\ UNCHANGED <<vm, fwds, entry, proc>> /\ Todo(m)' = Todo(m) /\ State(m)' = State(m)
        /\ IsOn(m)' = IsOn(m) /\ At(m, "DiscardSuspendedState")' = At(m, "DiscardSuspendedState")
    BY <1>1 DEF vars, JInv, Todo, State, IsOn, At
  <2>2. Awake(m)' /\ Order(Todo(m))'
    BY <2>1 DEF Facts, Awake, Order
  <2>3. Chosen(m)' /\ Destroyed(m)'
    BY <2>1 DEF Facts, Chosen, Destroyed, Elements, Stuck
  <2>4. Booted(m)' /\ Halted(m)'
    BY <2>1 DEF Facts, Booted, Halted, Elements
  <2> QED BY <2>2, <2>3, <2>4 DEF Facts
<1>2. ASSUME NEW m \in Machines, Step(m) PROVE JInv'
  <2>1. CASE \/ StartUnlessRunning(m) \/ ConfigureUnlessSuspended(m) \/ Suspend(m) \/ Destroy(m)
             \/ Export(m) \/ SnapshotRestore(m) \/ Imported(m) \/ Configure(m) \/ WaitForAddress(m)
             \/ ForwardPorts(m)
    BY <2>1, PlainSteps
  <2>2. CASE Import(m) \/ HandleForwardedPortCollisions(m)
    BY <2>2, PlainNotes
  <2>3. CASE HaltIfRunning(m) \/ DiscardSuspendedState(m) \/ GracefulHalt(m) \/ Halt(m)
    BY <2>3, HaltingSteps
  <2>4. CASE PruneForwardedPorts(m) \/ Delete(m) \/ Boot(m)
    BY <2>4, PruneFacts, DeleteFacts, BootFacts
  <2>5. CASE ForwardThePorts(m) \/ ForwardAgain(m)
    BY <2>5, RequestFacts
  <2>6. CASE InterruptedImport(m)
    BY <2>6, DestroyFacts, QuietAlone DEF InterruptedImport
  <2>7. CASE StepFails(m)
    BY <2>7, HalfwayAlone, AbortFacts, DestroyFacts DEF StepFails, Raise
  <2>8. CASE Succeed(m)
    BY <2>8, AbortFacts, QuietAlone DEF Succeed
  <2> QED BY <1>2, <2>1, <2>2, <2>3, <2>4, <2>5, <2>6, <2>7, <2>8 DEF Step
<1>3. ASSUME NEW m \in Machines, Outside(m) PROVE JInv'
  <2>1. CASE Begin(m)
    BY <2>1, BeginFacts
  <2>2. CASE Interrupt(m)
    BY <2>2, AbortFacts, QuietAlone DEF Interrupt
  <2>3. CASE Kill(m)
    BY <2>3, HalfwayAlone, AbortFacts DEF Kill
  <2>4. CASE GuestStops(m) \/ StartComesThrough(m) \/ StartIsLost(m)
    BY <2>4, GuestFacts
  <2> QED BY <1>3, <2>1, <2>2, <2>3, <2>4 DEF Outside
<1> QED BY <1>1, <1>2, <1>3 DEF Next

\* The facts hold at first.
LEMMA FactsAtFirst == Init => JInv
<1>1. Order(<<>>) /\ Elements(<<>>) = {} /\ Idle.todo = <<>> /\ Idle.did = "idle" /\ NoVm.power = "off"
  BY NoElements DEF Order, Idle, NoVm
<1> QED BY <1>1 DEF Init, JInv, Facts, Awake, IsOn, Todo, Chosen, Destroyed, Booted, Halted

\* The facts hold throughout.
THEOREM FactsInvariance == Spec => [](IInv /\ JInv)
<1> QED BY Initially, Inductive, FactsAtFirst, FactsInductive, PTL DEF Spec

\* The assertion of ForwardPorts is never set off by the machine's own
\* forwards, left by an earlier run: NoSelfCollision.
THEOREM OwnForwardsNeverCollide == Spec => []NoSelfCollision
<1>1. IInv /\ JInv => NoSelfCollision
  <2> SUFFICES ASSUME IInv, JInv, NEW m \in Machines, At(m, "ForwardPorts")
               PROVE  fwds[proc[m].port] # m
    BY DEF NoSelfCollision
  <2>1. /\ Todo(m) \in Seq(Middleware) /\ Todo(m)[1] = "ForwardPorts" /\ 1 \in 1 .. Len(Todo(m))
        /\ "ForwardPorts" \in Elements(Todo(m)) /\ Order(Todo(m)) /\ Chosen(m)
    BY AtElement DEF IInv, JInv, Facts
  <2>2. Len(Todo(m)) = 1
    BY <2>1, OrderAt DEF Lasts
  <2>3. "HandleForwardedPortCollisions" \notin Elements(Todo(m))
    BY <2>1, <2>2 DEF Elements
  <2> QED BY <2>1, <2>3 DEF Chosen, Forwarders
<1> QED BY <1>1, FactsInvariance, PTL

\* A destroy that deleted the machine leaves nothing of it, its forwards
\* included, whatever vmrun told the prune, but for the forwards that no prune
\* takes away (Stuck): DestroyLeavesNothing.
THEOREM DestroyIsComplete == Spec => DestroyLeavesNothing
<1>1. IInv /\ JInv => \A m \in Machines : proc[m].did = "delete" /\ Succeed(m) =>
                        ~vm[m].created /\ \A p \in Ports : fwds[p] = m => Stuck(p)
  BY DEF JInv, Facts, Destroyed, Succeed, Todo
<1> QED BY <1>1, FactsInvariance, PTL DEF DestroyLeavesNothing

\* A halt that reports success leaves the machine off and not suspended, but
\* for a start that an earlier command gave up: HaltMeansOff.
THEOREM HaltsAreOff == Spec => HaltMeansOff
<1>1. IInv /\ JInv => \A m \in Machines : proc[m].did = "halt" /\ Succeed(m) =>
                        State(m) \in {"not_created", "not_running"} \/ vm[m].power = "late"
  <2> SUFFICES ASSUME IInv, JInv, NEW m \in Machines, proc[m].did = "halt", Succeed(m)
               PROVE  State(m) \in {"not_created", "not_running"} \/ vm[m].power = "late"
    OBVIOUS
  <2>1. Todo(m) = <<>> /\ ~At(m, "DiscardSuspendedState")
    BY DEF Succeed, Todo, At
  <2>2. State(m) # "suspended" /\ (State(m) # "running" \/ vm[m].power = "late")
    BY <2>1 DEF JInv, Facts, Halted
  <2>3. State(m) \in {"not_created", "running", "suspended", "not_running"}
    BY DEF State
  <2> QED BY <2>2, <2>3
<1> QED BY <1>1, FactsInvariance, PTL DEF HaltMeansOff

\* A command that booted the machine and reports success has forwarded its
\* port, unless the guest has stopped since: SuccessMeansForwarded.
THEOREM SuccessIsForwarded == Spec => SuccessMeansForwarded
<1>1. IInv /\ JInv => \A m \in Machines : proc[m].did = "boot" /\ Succeed(m) /\ IsOn(m) => vm[m].port # None
  BY DEF JInv, Facts, Booted, Succeed, Todo, IsOn
<1> QED BY <1>1, FactsInvariance, PTL DEF SuccessMeansForwarded
=============================================================================
