------------------------- MODULE MCMachineLifecycle -------------------------
(* Two machines and, for the driver that keeps its promises without         *)
(* exception, nearly every command and two ports; for the two drivers that  *)
(* have more to remember, some commands that use the forwards, and one port.*)
EXTENDS MachineLifecycle, TLC

CONSTANTS box, other, p1, p2

Work(drv, cmds, ports) ==
  [driver |-> drv, ports |-> ports,
   commands |-> [m \in Machines |-> IF m = box THEN cmds ELSE {"up", "destroy"}]]

MCWorkloads ==
  {Work("vmrest over advanced", Command \ {"reload", "package"}, Ports)}
    \cup UNION {{Work("vmrest over simple", {"up", "reload", "destroy"}, {p}),
                Work("simple", {"up", "package", "destroy"}, {p})} : p \in Ports}

\* Ports are interchangeable.
PortSymmetry == Permutations(Ports)
=============================================================================
