---------------------------- MODULE VmrestRunner ----------------------------
(***************************************************************************)
(* The goroutine that runs VMware's vmrest as a child process: started by  *)
(* the first request that needs it, killed after 300 idle seconds, reaped  *)
(* by a goroutine of its own.  The field v.command is shared by the runner *)
(* and the reaper without a lock.                                          *)
(*                                                                         *)
(* The context of the driver is context.Background(), which is never done. *)
(***************************************************************************)
EXTENDS Naturals, FiniteSets, VmrestCommands

CONSTANT Clients    \* goroutines that call Do

VARIABLES
    runner,     \* where Runner is: "select", "check", "starting", "killing"
    client,     \* client[c]: "idle", "activating", "calling"
    command,    \* v.command
    process,    \* process[k]: the child of command k
    reaper,     \* reaper[k]: the goroutine that waits for it
    crashed     \* a nil pointer was used: the whole utility is gone

vars == <<runner, client, command, process, reaper, crashed>>

Children == {k \in Commands : process[k] \in {"running", "exited"}}

Init ==
    /\ runner = "select"
    /\ client = [c \in Clients |-> "idle"]
    /\ command = Nil
    /\ process = [k \in Commands |-> "none"]
    /\ reaper = [k \in Commands |-> "none"]
    /\ crashed = FALSE

-----------------------------------------------------------------------------
(* Requests: Active sends on the unbuffered channel, then Do calls vmrest. *)

Activate(c) ==
    /\ client[c] = "idle"
    /\ client' = [client EXCEPT ![c] = "activating"]
    /\ UNCHANGED <<runner, command, process, reaper, crashed>>

\* The select of Runner receives the activity.
TakeActivity(c) ==
    /\ runner = "select" /\ client[c] = "activating"
    /\ client' = [client EXCEPT ![c] = "calling"]
    /\ runner' = "check"
    /\ UNCHANGED <<command, process, reaper, crashed>>

\* The HTTP request to vmrest is answered or given up after its retries.
Return(c) ==
    /\ client[c] = "calling"
    /\ client' = [client EXCEPT ![c] = "idle"]
    /\ UNCHANGED <<runner, command, process, reaper, crashed>>

-----------------------------------------------------------------------------
(* The activity case of Runner.                                            *)

\* A fresh exec.Cmd is one that no process and no reaper uses.
Fresh(k) == command # k /\ process[k] = "none" /\ reaper[k] = "none"

\* Mutant: every activity starts a process.
CheckNothing ==
    /\ runner = "check"
    /\ \E k \in Commands : Fresh(k) /\ command' = k
    /\ runner' = "starting"
    /\ UNCHANGED <<client, process, reaper, crashed>>

CheckCommand ==
    /\ runner = "check"
    /\ IF command = Nil
       THEN /\ \E k \in Commands : Fresh(k) /\ command' = k
            /\ runner' = "starting"
       ELSE command' = command /\ runner' = "select"
    /\ UNCHANGED <<client, process, reaper, crashed>>

StartProcess ==
    /\ runner = "starting"
    /\ process' = [process EXCEPT ![command] = "running"]
    /\ reaper' = [reaper EXCEPT ![command] = "waiting"]
    /\ runner' = "select"
    /\ UNCHANGED <<client, command, crashed>>

\* Windows: the process is gone before os.FindProcess opens it; no reaper.
StartUnfound ==
    /\ runner = "starting"
    /\ process' = [process EXCEPT ![command] = "exited"]
    /\ runner' = "select"
    /\ UNCHANGED <<client, command, reaper, crashed>>

\* Mutant: a failure returns from Runner instead of continuing its loop.
StartEnds ==
    /\ runner = "starting"
    /\ runner' = "ended"
    /\ UNCHANGED <<client, command, process, reaper, crashed>>

\* A pipe or the start fails: v.command stays set to a Cmd without process.
StartFails ==
    /\ runner = "starting"
    /\ runner' = "select"
    /\ UNCHANGED <<client, command, process, reaper, crashed>>

-----------------------------------------------------------------------------
(* The keepalive case.  The 300 seconds are counted from the last time     *)
(* Runner entered the select, so every activity begins them anew; time is  *)
(* left open.                                                              *)

Keepalive ==
    /\ runner = "select"
    /\ command # Nil
    /\ runner' = "killing"
    /\ UNCHANGED <<client, command, process, reaper, crashed>>

\* v.command is read again: by now the reaper may have set it to nil.
HasProcess == command # Nil /\ process[command] # "none"

\* Mutant: the timer finds the process and leaves it running.
KillNothing ==
    /\ runner = "killing" /\ HasProcess
    /\ runner' = "select"
    /\ UNCHANGED <<client, command, process, reaper, crashed>>

\* Kill fails on a process that has exited, which is ignored.
Kill ==
    /\ runner = "killing" /\ HasProcess
    /\ process' = [process EXCEPT ![command] = IF @ = "running" THEN "exited" ELSE @]
    /\ runner' = "select"
    /\ UNCHANGED <<client, command, reaper, crashed>>

\* Process is read through a nil Cmd, or Kill is called on a nil Process.
KillCrashes ==
    /\ runner = "killing" /\ ~HasProcess
    /\ crashed' = TRUE
    /\ UNCHANGED <<runner, client, command, process, reaper>>

-----------------------------------------------------------------------------
(* The child and its reaper.                                               *)

Exit(k) ==
    /\ process[k] = "running"
    /\ process' = [process EXCEPT ![k] = "exited"]
    /\ UNCHANGED <<runner, client, command, reaper, crashed>>

\* Mutant: v.command is given up before Wait instead of after it.
ForgetAndWait(k) ==
    /\ reaper[k] = "waiting"
    /\ \/ command = k /\ command' = Nil /\ UNCHANGED <<process, reaper>>
       \/ /\ process[k] = "exited"
          /\ process' = [process EXCEPT ![k] = "reaped"]
          /\ reaper' = [reaper EXCEPT ![k] = "reaped"]
          /\ UNCHANGED command
    /\ UNCHANGED <<runner, client, crashed>>

Wait(k) ==
    /\ reaper[k] = "waiting" /\ process[k] = "exited"
    /\ process' = [process EXCEPT ![k] = "reaped"]
    /\ reaper' = [reaper EXCEPT ![k] = "reaped"]
    /\ UNCHANGED <<runner, client, command, crashed>>

\* The Cmd k is garbage afterwards and may stand for another one.
Forget(k) ==
    /\ reaper[k] = "reaped"
    /\ command' = Nil
    /\ process' = [process EXCEPT ![k] = "none"]
    /\ reaper' = [reaper EXCEPT ![k] = "none"]
    /\ UNCHANGED <<runner, client, crashed>>

-----------------------------------------------------------------------------
RunnerNext ==
    CheckCommand \/ StartProcess \/ StartUnfound \/ StartFails \/ Kill \/ KillCrashes
Reaper(k) == Wait(k) \/ Forget(k)

Next ==
    \/ /\ ~crashed
       /\ \/ RunnerNext \/ Keepalive
          \/ \E c \in Clients : Activate(c) \/ TakeActivity(c) \/ Return(c)
          \/ \E k \in Commands : Reaper(k) \/ Exit(k)
    \/ /\ crashed
       /\ UNCHANGED vars \/ \E k \in Commands : Exit(k)

\* Goroutines run, and the timer fires if Runner stays in its select; activity
\* that comes often enough keeps it from ever firing.  Go's select picks among
\* the ready cases at random, so a sender that is ready again and again is taken.
Fairness ==
    /\ WF_vars(~crashed /\ RunnerNext)
    /\ WF_vars(~crashed /\ Keepalive)
    /\ \A c \in Clients : SF_vars(~crashed /\ TakeActivity(c))
    /\ \A k \in Commands : WF_vars(~crashed /\ Reaper(k))

Spec == Init /\ [][Next]_vars /\ Fairness

-----------------------------------------------------------------------------
(* Properties.                                                             *)

\* Types.  A runner that starts has a Cmd that was never used.
TypeOK ==
    /\ runner \in {"select", "check", "starting", "killing"}
    /\ client \in [Clients -> {"idle", "activating", "calling"}]
    /\ command \in Commands \cup {Nil}
    /\ process \in [Commands -> {"none", "running", "exited", "reaped"}]
    /\ reaper \in [Commands -> {"none", "waiting", "reaped"}]
    /\ crashed \in BOOLEAN

\* A child that runs or is not reaped yet is the one v.command points to: there
\* is never a second vmrest on the port, nor one the keepalive cannot kill.
ChildIsOwned == \A k \in Children : command = k

\* The keepalive check and the reaper race for v.command: the nil pointer that
\* brings the utility down is only met when no vmrest runs.
CrashOnlyWithoutProcess ==
    [][crashed' /\ ~crashed => \A k \in Commands : process[k] # "running"]_vars

\* When activity ceases, every child is reaped sooner or later: the keepalive
\* ends it at the latest.
ChildIsReaped ==
    <>[][\A c \in Clients : ~TakeActivity(c)]_vars
        => \A k \in Commands : reaper[k] = "waiting" ~> (reaper[k] # "waiting" \/ crashed)

\* Active never blocks its caller for ever, whatever fails at the start.
ActivityIsTaken ==
    \A c \in Clients : client[c] = "activating" ~> (client[c] # "activating" \/ crashed)
=============================================================================
