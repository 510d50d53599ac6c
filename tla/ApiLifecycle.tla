---------------------------- MODULE ApiLifecycle ----------------------------
(***************************************************************************)
(* The life of the REST API process: start-up, the signal goroutine of     *)
(* main, the consumer goroutine that owns the listener, the connections,   *)
(* and shutdown.  Main is the REST command's (rest_api.go) or that of the  *)
(* Windows service (service_run_windows.go).                               *)
(*                                                                         *)
(* stopChan, HaltedChan and the signal channel are unbuffered: a send and  *)
(* its receive are one step of two processes.                              *)
(***************************************************************************)
EXTENDS Naturals, Sequences, FiniteSets

CONSTANT Conns  \* client connections

ASSUME ConnsAssumption == IsFiniteSet(Conns)

VARIABLES
    main,      \* the main goroutine
    tasks,     \* ShutdownTasks, in order of registration
    signal,    \* the goroutine that waits for the first signal
    todo,      \* tasks it has still to run, the running one first
    stop,      \* the call of Stop: "idle", "sending", "sent", "refused"
    consumer,  \* the goroutine of consume
    listener,  \* "none", "open", "closed"
    Halted,    \* the flag Stop looks at
    conn,      \* conn[c]: what connection c and its goroutine do
    home,      \* the generated directory vmrest is configured in
    tracked,   \* counter of the reqTracker WaitGroup
    waiting,   \* whether Wait is parked in the WaitGroup
    awaited    \* requests under way when the drain began (history)

vars == <<main, tasks, signal, todo, stop, consumer, listener, Halted, conn,
          home, tracked, waiting, awaited>>

procVars == <<main, tasks, signal, todo, stop, home>>
apiVars  == <<consumer, listener, Halted>>
reqVars  == <<conn, tracked, waiting, awaited>>

Tasks == {"Cleanup", "Stop"}

Init ==
    /\ main \in {"build", "buildService"} /\ tasks = <<>> /\ home = "none"
    /\ signal = "waiting" /\ todo = <<>>
    /\ stop = "idle"
    /\ consumer = "none" /\ listener = "none" /\ Halted = TRUE
    /\ conn = [c \in Conns |-> "none"]
    /\ tracked = 0 /\ waiting = FALSE /\ awaited = {}

Alive == main \notin {"exited", "failed", "crashed"}

-----------------------------------------------------------------------------
(* The main goroutine.                                                     *)

\* RegisterShutdownTask stores the grown slice, holding L.  RunShutdownTasks
\* does not take L, so main is "registering" while a reader may see half of it.
Register(task) == tasks' = Append(tasks, task)

Registered(task) == \E i \in DOMAIN tasks : tasks[i] = task

\* The driver is chosen.  The vmrest upgrade generates a home directory and
\* registers its removal; on Windows the home is the user's and stays.  If a
\* step of the upgrade fails, before the directory is made or after, the driver
\* it was to replace is used, and nobody removes the directory.
BuildDriver ==
    /\ main = "build"
    /\ \/ main' \in {"start", "failed"} /\ home' \in {home, "present"}
       \/ main' = "registerCleanup" /\ home' = "present"
    /\ UNCHANGED <<tasks, signal, todo, stop, apiVars, reqVars>>

BuildServiceDriver ==
    /\ main = "buildService"
    /\ main' \in {"startService", "failed"}
    /\ UNCHANGED <<tasks, signal, todo, stop, home, apiVars, reqVars>>

RegisterCleanup ==
    /\ main = "registerCleanup"
    /\ Register("Cleanup") /\ main' = "start"
    /\ UNCHANGED <<signal, todo, stop, home, apiVars, reqVars>>

Starting == main \in {"start", "startService"}

\* Where main goes once the API serves.
AfterStart == IF main = "startService" THEN "control" ELSE "registerStop"

\* Mutant: Start leaves the flag that Create set.
StartStillHalted ==
    /\ Starting
    /\ listener' = "open" /\ consumer' = "select"
    /\ main' = AfterStart
    /\ UNCHANGED <<Halted, tasks, signal, todo, stop, home, reqVars>>

StartApi ==
    /\ Starting
    /\ listener' = "open" /\ Halted' = FALSE /\ consumer' = "select"
    /\ main' = AfterStart
    /\ UNCHANGED <<tasks, signal, todo, stop, home, reqVars>>

\* The port is taken, or the certificate cannot be read.
StartFails ==
    /\ Starting
    /\ main' = "failed"
    /\ UNCHANGED <<tasks, signal, todo, stop, home, apiVars, reqVars>>

RegisterStop ==
    /\ main = "registerStop"
    /\ Register("Stop") /\ main' = "halted?"
    /\ UNCHANGED <<signal, todo, stop, home, apiVars, reqVars>>

-----------------------------------------------------------------------------
(* Stop: refused when halted, otherwise parked on stopChan until the       *)
(* consumer takes the notification.                                        *)

CallStop == stop' = IF Halted THEN "refused" ELSE "sending"

StopReturned == stop \in {"refused", "sent"}

\* The service manager asks for a stop, and main calls Stop itself.
ControlStop ==
    /\ main = "control"
    /\ CallStop
    /\ main' = "stopping"
    /\ UNCHANGED <<tasks, signal, todo, home, apiVars, reqVars>>

ControlStopped ==
    /\ main = "stopping" /\ StopReturned
    /\ main' = "halted?"
    /\ UNCHANGED <<tasks, signal, todo, stop, home, apiVars, reqVars>>

-----------------------------------------------------------------------------
(* The signal goroutine.  A signal that comes when it is not waiting is    *)
(* dropped: nobody receives from the channel a second time.                *)

\* Mutant: tasks run in reverse order, the way deferred calls do.
ReversedSnapshots ==
    {[i \in DOMAIN tasks |-> tasks[Len(tasks) + 1 - i]]}

\* What the range statement of RunShutdownTasks may see of the slice: the
\* tasks registered, and during an append the tasks with the new one too.
Snapshots ==
    {tasks} \cup CASE main = "registerCleanup" -> {Append(tasks, "Cleanup")}
                   [] main = "registerStop"    -> {Append(tasks, "Stop")}
                   [] OTHER                    -> {}

Registering == main \in {"registerCleanup", "registerStop"}

Signal ==
    /\ Alive /\ signal = "waiting"
    /\ signal' = "running"
    /\ todo' \in Snapshots
    /\ UNCHANGED <<main, tasks, stop, home, apiVars, reqVars>>

\* The new length with the old array: the element read is no function.
TornSnapshot ==
    /\ Registering /\ signal = "waiting"
    /\ signal' = "running"
    /\ main' = "crashed"
    /\ UNCHANGED <<tasks, todo, stop, home, apiVars, reqVars>>

Running(task) == Alive /\ signal = "running" /\ todo # <<>> /\ Head(todo) = task

RunCleanup ==
    /\ Running("Cleanup")
    /\ home' = "removed"
    /\ todo' = Tail(todo)
    /\ UNCHANGED <<main, tasks, signal, stop, apiVars, reqVars>>

RunStop ==
    /\ Running("Stop") /\ stop = "idle"
    /\ CallStop
    /\ UNCHANGED <<main, tasks, signal, todo, home, apiVars, reqVars>>

RunStopReturns ==
    /\ Running("Stop") /\ StopReturned
    /\ todo' = Tail(todo)
    /\ UNCHANGED <<main, tasks, signal, stop, home, apiVars, reqVars>>

TasksDone ==
    /\ Alive /\ signal = "running" /\ todo = <<>>
    /\ signal' = "done"
    /\ UNCHANGED <<main, tasks, todo, stop, home, apiVars, reqVars>>

-----------------------------------------------------------------------------
(* The consumer: takes the stop notification, closes the listener, waits   *)
(* for the WaitGroup, and hands Halted over to main.                       *)

TakeStop ==
    /\ Alive /\ consumer = "select" /\ stop = "sending"
    /\ stop' = "sent"
    /\ consumer' = "close"
    /\ UNCHANGED <<main, tasks, signal, todo, home, listener, Halted, reqVars>>

CloseListener ==
    /\ Alive /\ consumer = "close"
    /\ listener' = "closed"
    /\ consumer' = "drain"
    /\ UNCHANGED <<Halted, procVars, reqVars>>

\* Requests whose Add has been done and whose Done has not.
InFlight == {c \in Conns : conn[c] = "handling"}

\* Mutant: the consumer closes the listener and does not wait.
NoWait ==
    /\ Alive /\ consumer = "drain"
    /\ awaited' = InFlight
    /\ consumer' = "drained" /\ waiting' = FALSE
    /\ UNCHANGED <<listener, Halted, conn, tracked, procVars>>

\* WaitGroup.Wait: returns at once on a zero counter, parks otherwise.
WaitInflight ==
    /\ Alive /\ consumer = "drain"
    /\ awaited' = InFlight
    /\ IF tracked = 0 THEN consumer' = "drained" /\ waiting' = FALSE
                      ELSE consumer' = "parked"  /\ waiting' = TRUE
    /\ UNCHANGED <<listener, Halted, conn, tracked, procVars>>

\* The deferred function runs as well when Wait panics because a request was
\* added before it returned; either way Halted is handed over next.
HaltConsumer ==
    /\ Alive /\ consumer = "drained"
    /\ Halted' = TRUE
    /\ consumer' = "notify"
    /\ UNCHANGED <<listener, procVars, reqVars>>

\* HaltedChan: the consumer ends and main exits, with every other goroutine.
Exit ==
    /\ consumer = "notify" /\ main = "halted?"
    /\ consumer' = "gone"
    /\ main' = "exited"
    /\ UNCHANGED <<tasks, signal, todo, stop, home, listener, Halted, reqVars>>

-----------------------------------------------------------------------------
(* Connections.  Closing the listener ends none of them: a kept-alive      *)
(* connection may send its next request at any time.                       *)

Connect(c) ==
    /\ Alive /\ listener = "open" /\ conn[c] = "none"
    /\ conn' = [conn EXCEPT ![c] = "idle"]
    /\ UNCHANGED <<tracked, waiting, awaited, procVars, apiVars>>

Request(c) ==
    /\ Alive /\ conn[c] = "idle"
    /\ conn' = [conn EXCEPT ![c] = "received"]
    /\ UNCHANGED <<tracked, waiting, awaited, procVars, apiVars>>

Disconnect(c) ==
    /\ Alive /\ conn[c] = "idle"
    /\ conn' = [conn EXCEPT ![c] = "none"]
    /\ UNCHANGED <<tracked, waiting, awaited, procVars, apiVars>>

\* WaitGroup.Add panics when it raises a zero counter that a Wait is parked
\* on; the counter keeps the increment and net/http drops the connection.
TrackRequest(c) ==
    /\ Alive /\ conn[c] = "received"
    /\ tracked' = tracked + 1
    /\ conn' = [conn EXCEPT ![c] = IF waiting /\ tracked = 0 THEN "dropped" ELSE "handling"]
    /\ UNCHANGED <<waiting, awaited, procVars, apiVars>>

\* The deferred Done of RequestHandler, after ServeHTTP returned.  The one
\* that reaches zero with a Wait parked has still to wake it.
FinishRequest(c) ==
    /\ Alive /\ conn[c] = "handling"
    /\ tracked' = tracked - 1
    /\ conn' = [conn EXCEPT ![c] = IF waiting /\ tracked = 1 THEN "waking" ELSE "idle"]
    /\ awaited' = awaited \ {c}
    /\ UNCHANGED <<waiting, procVars, apiVars>>

\* Done looks at the counter again before it releases the parked Wait, and
\* panics when a request was added in between: then nobody releases it.
WakeWaiter(c) ==
    /\ Alive /\ conn[c] = "waking"
    /\ IF tracked = 0
       THEN /\ waiting' = FALSE
            /\ consumer' = "drained"
            /\ conn' = [conn EXCEPT ![c] = "idle"]
       ELSE /\ conn' = [conn EXCEPT ![c] = "dropped"]
            /\ UNCHANGED <<waiting, consumer>>
    /\ UNCHANGED <<tracked, awaited, listener, Halted, procVars>>

-----------------------------------------------------------------------------
(* A panic in a goroutine that net/http does not recover: see VmrestRunner. *)

Panic ==
    /\ Alive
    /\ main' = "crashed"
    /\ UNCHANGED <<tasks, signal, todo, stop, home, apiVars, reqVars>>

-----------------------------------------------------------------------------
MainNext ==
    \/ BuildDriver \/ BuildServiceDriver \/ RegisterCleanup \/ StartApi \/ StartFails
    \/ RegisterStop \/ ControlStopped
SignalNext   == RunCleanup \/ RunStop \/ RunStopReturns \/ TasksDone
ConsumerNext == TakeStop \/ CloseListener \/ WaitInflight \/ HaltConsumer \/ Exit
Serve(c)     == TrackRequest(c) \/ FinishRequest(c) \/ WakeWaiter(c)
Client(c)    == Connect(c) \/ Request(c) \/ Disconnect(c)

\* A request that came while Done was waking the drain made one of the two
\* panic, and the drain is parked for good.
LostWakeup == consumer = "parked" /\ \E c \in Conns : conn[c] = "dropped"

\* The only states nothing leaves.
Idle ==
    /\ ~Alive \/ LostWakeup
    /\ UNCHANGED vars

Next ==
    \/ MainNext \/ ControlStop
    \/ Signal \/ TornSnapshot \/ SignalNext
    \/ ConsumerNext
    \/ \E c \in Conns : Serve(c) \/ Client(c)
    \/ Panic
    \/ Idle

\* Goroutines run and handlers return; signals, control requests and clients
\* owe nothing.
Fairness ==
    /\ WF_vars(MainNext) /\ WF_vars(SignalNext) /\ WF_vars(ConsumerNext)
    /\ \A c \in Conns : WF_vars(Serve(c))

Spec == Init /\ [][Next]_vars /\ Fairness

-----------------------------------------------------------------------------
(* Properties.                                                             *)

\* Types; the counter holds at most one request per connection and the
\* increment of an Add that panicked.
TypeOK ==
    /\ main \in {"build", "buildService", "registerCleanup", "start", "startService",
                 "registerStop", "control", "stopping", "halted?", "exited", "failed", "crashed"}
    /\ tasks \in Seq(Tasks) /\ todo \in Seq(Tasks)
    /\ signal \in {"waiting", "running", "done"}
    /\ stop \in {"idle", "sending", "sent", "refused"}
    /\ consumer \in {"none", "select", "close", "drain", "parked", "drained", "notify", "gone"}
    /\ listener \in {"none", "open", "closed"}
    /\ Halted \in BOOLEAN /\ waiting \in BOOLEAN
    /\ conn \in [Conns -> {"none", "idle", "received", "handling", "waking", "dropped"}]
    /\ home \in {"none", "present", "removed"}
    /\ tracked \in 0..(Cardinality(Conns) + 1)
    /\ awaited \subseteq Conns

\* The requests under way when the drain begins are finished before the API
\* reports itself halted, whatever later requests on kept-alive connections
\* do to the WaitGroup; so the exit of main never cuts one of them off.
DrainIsComplete == consumer \in {"drained", "notify", "gone"} => awaited = {}

\* No shutdown finds the server "currently halted": whoever calls Stop does it
\* after a Start that worked and before the drain is over.
StopIsNeverRefused == stop # "refused"

\* An orderly exit leaves no generated home directory behind whose removal was
\* registered, although main exits as soon as the Stop task has worked, however
\* many tasks are left.  (The directory of an upgrade that failed stays.)
CleanExitRemovesHome == main = "exited" /\ Registered("Cleanup") => home # "present"

ShutdownRequested == main = "stopping" \/ \E i \in DOMAIN todo : todo[i] = "Stop"

\* Once the snapshot of the signal goroutine holds the Stop task, or the
\* service manager has asked, the process ends, provided clients stop sending
\* requests at some time and no request met the wake-up of the drain.
ShutdownCompletes ==
    <>[][\A c \in Conns : ~Request(c)]_vars
        => (ShutdownRequested ~> (~Alive \/ LostWakeup))
=============================================================================
