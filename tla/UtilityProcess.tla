---------------------------- MODULE UtilityProcess ---------------------------
(***************************************************************************)
(* The utility with the vmrest driver: the REST API of ApiLifecycle, whose *)
(* handlers call vmrest through the goroutines of VmrestRunner.            *)
(*                                                                         *)
(* A handler blocks in Active until Runner takes its activity, and answers *)
(* when vmrest has answered it: the drain of a shutdown waits for Runner.  *)
(* A nil pointer in Runner ends the process; the end of the process ends   *)
(* its goroutines, but not vmrest.                                         *)
(***************************************************************************)
EXTENDS ApiLifecycle, VmrestCommands

CONSTANT Callers  \* connections whose requests call vmrest

ASSUME CallersAssumption == Callers \subseteq Conns

VARIABLES runner, client, command, process, reaper, crashed

R == INSTANCE VmrestRunner WITH Clients <- Callers

runnerVars == <<runner, client, command, process, reaper, crashed>>

utilityVars == <<vars, runnerVars>>

UtilityInit == Init /\ R!Init

-----------------------------------------------------------------------------
(* Handlers.                                                               *)

\* The service is Windows', and there Stop is no task.
InService == main \in {"control", "stopping"} \/ (main = "halted?" /\ tasks = <<>>)

\* The driver that was built has a Runner: its removal of the home is registered,
\* or it is the service's with the user's home.
HasRunner == Registered("Cleanup") \/ InService

\* A tracked request calls the driver, which calls vmrest.
CallVmrest(c) ==
    /\ Alive /\ HasRunner /\ conn[c] = "handling"
    /\ R!Activate(c)
    /\ UNCHANGED vars

\* vmrest answers, or the retries are used up.
VmrestReturns(c) == Alive /\ R!Return(c) /\ UNCHANGED vars

\* A handler is done when none of its calls is under way.
Finish(c) == (c \in Callers => client[c] = "idle") /\ FinishRequest(c) /\ UNCHANGED runnerVars

ServeOther(c) == (TrackRequest(c) \/ WakeWaiter(c)) /\ UNCHANGED runnerVars

-----------------------------------------------------------------------------
(* The goroutines of the process, and the child outside of it.             *)

RunnerStep ==
    /\ Alive
    /\ \/ R!CheckCommand \/ R!StartProcess \/ R!StartFails \/ R!Kill
       \/ InService /\ R!StartUnfound
    /\ UNCHANGED vars

RunnerPanics == R!KillCrashes /\ Panic

TimerFires == Alive /\ R!Keepalive /\ UNCHANGED vars

TakeActivity(c) == Alive /\ R!TakeActivity(c) /\ UNCHANGED vars

Reap(k) == Alive /\ R!Reaper(k) /\ UNCHANGED vars

\* The child may end whenever it likes, and outlive the utility.
ChildExits(k) == R!Exit(k) /\ UNCHANGED vars

ApiStep ==
    /\ MainNext \/ ControlStop \/ Signal \/ TornSnapshot \/ SignalNext \/ ConsumerNext
    /\ UNCHANGED runnerVars

UtilityNext ==
    \/ ApiStep
    \/ \E c \in Conns : ServeOther(c) \/ Finish(c) \/ (Client(c) /\ UNCHANGED runnerVars)
    \/ \E c \in Callers : CallVmrest(c) \/ TakeActivity(c) \/ VmrestReturns(c)
    \/ RunnerStep \/ RunnerPanics \/ TimerFires
    \/ \E k \in Commands : Reap(k) \/ ChildExits(k)
    \/ Idle /\ UNCHANGED runnerVars

\* As in the two components: the timer fires only if Runner stays in its select.
\* A handler makes finitely many calls, and vmrest answers or the call times out.
UtilityFairness ==
    /\ WF_utilityVars(MainNext /\ UNCHANGED runnerVars)
    /\ WF_utilityVars(SignalNext /\ UNCHANGED runnerVars)
    /\ WF_utilityVars(ConsumerNext /\ UNCHANGED runnerVars)
    /\ WF_utilityVars(RunnerStep \/ RunnerPanics)
    /\ WF_utilityVars(TimerFires)
    /\ \A c \in Conns :
         /\ WF_utilityVars(ServeOther(c))
         /\ SF_utilityVars(Finish(c))
    /\ \A c \in Callers :
         /\ WF_utilityVars(VmrestReturns(c))
         /\ SF_utilityVars(TakeActivity(c))
    /\ WF_utilityVars(\E k \in Commands : Reap(k))

UtilitySpec == UtilityInit /\ [][UtilityNext]_utilityVars /\ UtilityFairness

-----------------------------------------------------------------------------
(* Properties.                                                             *)

\* VmrestRunner: no vmrest is out of the reach of the keepalive.
ChildIsOwned == R!ChildIsOwned

\* VmrestRunner: the nil pointer of the keepalive is only met when no vmrest
\* runs (vmrest.go:246), requests and shutdown beside it or not.
CrashOnlyWithoutProcess == R!CrashOnlyWithoutProcess

\* Every vmrest is waited for in the end (vmrest.go:236) once requests leave it
\* alone, as long as the utility itself lives: the keepalive kills one that does
\* not end by itself, whatever became of the starts and timers before.  (While
\* requests keep coming the timer begins anew with each, vmrest.go:246.)
ChildIsReaped ==
    <>[][\A c \in Callers : ~TakeActivity(c)]_utilityVars
        => ((\E k \in Commands : reaper[k] = "waiting")
                ~> ((\A k \in Commands : reaper[k] # "waiting") \/ ~Alive))

\* No handler blocks in Active for ever: Runner takes its activity, whatever
\* starts failed before (vmrest.go:163), or the utility ends.
ActivityIsTaken ==
    \A c \in Callers : client[c] = "activating" ~> (client[c] # "activating" \/ ~Alive)
=============================================================================
