------------------------ MODULE UtilityProcess_proofs ------------------------
(***************************************************************************)
(* The safety of start-up and shutdown for any finite set of connections;  *)
(* of Runner for any number of clients and commands; and that the whole    *)
(* process implements the two and keeps what each of them keeps.           *)
(*                                                                         *)
(* The API's inductive invariant has two parts: ProcessInv about main, the *)
(* signal goroutine and the consumer, DrainInv about requests and the      *)
(* WaitGroup.                                                              *)
(***************************************************************************)
EXTENDS UtilityProcess, FiniteSetTheorems, TLAPS

-----------------------------------------------------------------------------
(* Main, the signal goroutine and the consumer.                            *)

\* The lists the two registrations of the program can build.
TaskLists == {<<>>, <<"Cleanup">>, <<"Stop">>, <<"Cleanup", "Stop">>}

HasStop(list) == list \in {<<"Stop">>, <<"Cleanup", "Stop">>}

Before == {"build", "buildService", "registerCleanup", "start", "startService", "failed"}

\* Main is the Windows service's.
AsService == main \in {"buildService", "startService", "control", "stopping"}

ProcessTypes ==
    /\ main \in {"build", "buildService", "registerCleanup", "start", "startService",
                 "registerStop", "control", "stopping", "halted?", "exited", "failed", "crashed"}
    /\ listener \in {"none", "open", "closed"} /\ Halted \in BOOLEAN
    /\ tasks \in TaskLists /\ todo \in TaskLists
    /\ home \in {"none", "present", "removed"}
    /\ signal \in {"waiting", "running", "done"}
    /\ stop \in {"idle", "sending", "sent", "refused"}

\* Main has started the consumer exactly when it is past Start.
MainInv ==
    /\ main \in Before => consumer = "none"
    /\ consumer = "none" => main \in Before \cup {"crashed"}
    /\ main \in {"build", "registerCleanup"} => tasks = <<>>
    /\ main = "build" => home = "none" /\ todo = <<>>
    /\ main = "exited" => consumer = "gone"
    /\ main \in {"start", "registerStop"} => ~HasStop(tasks)

\* Stop is called at most once, after Start, and sent before anything closes.
StopInv ==
    /\ consumer = "none" => ~HasStop(tasks) /\ ~HasStop(todo) /\ stop = "idle"
    /\ consumer \notin {"none", "select"} => stop = "sent"
    /\ Halted => consumer \notin {"select", "close"}
    /\ stop # "refused"
    /\ AsService => tasks = <<>> /\ todo = <<>>
    /\ main \in {"buildService", "startService", "control"} => stop = "idle"

\* The removal of the home directory is registered.
HasCleanup(list) == list \in {<<"Cleanup">>, <<"Cleanup", "Stop">>}

\* The home directory, if its removal is registered, is removed before Stop is
\* called.
HomeInv ==
    /\ todo = <<"Stop">> /\ HasCleanup(tasks) => home # "present"
    /\ stop # "idle" /\ HasCleanup(tasks) => home # "present"
    /\ AsService => home = "none"

ProcessInv == ProcessTypes /\ MainInv /\ StopInv /\ HomeInv

\* What the sequence operators do to the four lists.
LEMMA TaskListFacts ==
  /\ Append(<<>>, "Cleanup") = <<"Cleanup">>
  /\ Append(<<>>, "Stop") = <<"Stop">>
  /\ Append(<<"Cleanup">>, "Stop") = <<"Cleanup", "Stop">>
  /\ Head(<<"Cleanup">>) = "Cleanup" /\ Tail(<<"Cleanup">>) = <<>>
  /\ Head(<<"Stop">>) = "Stop" /\ Tail(<<"Stop">>) = <<>>
  /\ Head(<<"Cleanup", "Stop">>) = "Cleanup" /\ Tail(<<"Cleanup", "Stop">>) = <<"Stop">>
  /\ <<"Cleanup">> # <<>> /\ <<"Stop">> # <<>> /\ <<"Cleanup", "Stop">> # <<>>
  /\ <<"Cleanup">> # <<"Stop">> /\ <<"Cleanup", "Stop">> # <<"Cleanup">>
  /\ <<"Cleanup", "Stop">> # <<"Stop">>
<1>1. Append(<<>>, "Cleanup") = <<"Cleanup">>
  OBVIOUS
<1>2. Append(<<>>, "Stop") = <<"Stop">>
  OBVIOUS
<1>3. Append(<<"Cleanup">>, "Stop") = <<"Cleanup", "Stop">>
  <2> DEFINE a == Append(<<"Cleanup">>, "Stop")
             b == <<"Cleanup", "Stop">>
  <2>1. <<"Cleanup">> \in Seq({"Cleanup", "Stop"}) /\ Len(<<"Cleanup">>) = 1
    OBVIOUS
  <2>2. a \in Seq({"Cleanup", "Stop"}) /\ Len(a) = 2 /\ a[1] = "Cleanup" /\ a[2] = "Stop"
    BY <2>1
  <2>3. b \in Seq({"Cleanup", "Stop"}) /\ Len(b) = 2 /\ b[1] = "Cleanup" /\ b[2] = "Stop"
    OBVIOUS
  <2> HIDE DEF a, b
  <2>4. a = b
    BY <2>2, <2>3
  <2> QED
    BY <2>4 DEF a, b
<1>4. Head(<<"Cleanup">>) = "Cleanup" /\ Tail(<<"Cleanup">>) = <<>>
  OBVIOUS
<1>5. Head(<<"Stop">>) = "Stop" /\ Tail(<<"Stop">>) = <<>>
  OBVIOUS
<1>6. Head(<<"Cleanup", "Stop">>) = "Cleanup" /\ Tail(<<"Cleanup", "Stop">>) = <<"Stop">>
  OBVIOUS
<1>7. /\ <<"Cleanup">> # <<>> /\ <<"Stop">> # <<>> /\ <<"Cleanup", "Stop">> # <<>>
      /\ <<"Cleanup">> # <<"Stop">> /\ <<"Cleanup", "Stop">> # <<"Cleanup">>
      /\ <<"Cleanup", "Stop">> # <<"Stop">>
  OBVIOUS
<1> QED
  BY <1>1, <1>2, <1>3, <1>4, <1>5, <1>6, <1>7

\* Nothing is started, nothing is registered.
LEMMA InitProcessInv == Init => ProcessInv
  BY TaskListFacts
  DEF Init, ProcessInv, ProcessTypes, MainInv, StopInv, HomeInv, TaskLists, HasStop, HasCleanup, Before, AsService

USE ConnsAssumption

\* Each step of main, the signal goroutine and the consumer keeps it; requests
\* touch none of it but the consumer, which WakeWaiter moves on.
LEMMA NextProcessInv ==
  ProcessInv /\ (\A c \in Conns : conn[c] = "waking" => consumer = "parked") /\ [Next]_vars
      => ProcessInv'
<1> SUFFICES ASSUME ProcessInv, \A c \in Conns : conn[c] = "waking" => consumer = "parked",
                    [Next]_vars
             PROVE ProcessInv'
  OBVIOUS
<1> USE TaskListFacts
        DEF ProcessInv, ProcessTypes, MainInv, StopInv, HomeInv, TaskLists, HasStop, HasCleanup, Before, AsService,
            Alive, apiVars, reqVars, procVars
<1>1. CASE BuildDriver \/ BuildServiceDriver
  BY <1>1 DEF BuildDriver, BuildServiceDriver
<1>2. CASE RegisterCleanup
  BY <1>2 DEF RegisterCleanup, Register
<1>3. CASE StartApi
  BY <1>3 DEF StartApi, Starting, AfterStart
<1>4. CASE StartFails
  BY <1>4 DEF StartFails, Starting
<1>5. CASE RegisterStop
  BY <1>5 DEF RegisterStop, Register
<1>6. CASE ControlStop
  BY <1>6 DEF ControlStop, CallStop
<1>7. CASE ControlStopped
  BY <1>7 DEF ControlStopped, StopReturned
<1>8. CASE Signal
  <2>1. CASE main = "registerCleanup"
    BY <1>8, <2>1 DEF Signal, Snapshots
  <2>2. CASE main = "registerStop"
    BY <1>8, <2>2 DEF Signal, Snapshots
  <2>3. CASE main \notin {"registerCleanup", "registerStop"}
    BY <1>8, <2>3 DEF Signal, Snapshots
  <2> QED
    BY <2>1, <2>2, <2>3
<1>9. CASE TornSnapshot
  BY <1>9 DEF TornSnapshot, Registering
<1>10. CASE RunCleanup
  BY <1>10 DEF RunCleanup, Running
<1>11. CASE RunStop
  BY <1>11 DEF RunStop, Running, CallStop
<1>12. CASE RunStopReturns
  BY <1>12 DEF RunStopReturns, Running, StopReturned
<1>13. CASE TasksDone
  BY <1>13 DEF TasksDone
<1>14. CASE TakeStop
  BY <1>14 DEF TakeStop
<1>15. CASE CloseListener
  BY <1>15 DEF CloseListener
<1>16. CASE WaitInflight
  BY <1>16 DEF WaitInflight
<1>17. CASE HaltConsumer
  BY <1>17 DEF HaltConsumer
<1>18. CASE Exit
  BY <1>18 DEF Exit
<1>19. ASSUME NEW c \in Conns, Client(c) \/ TrackRequest(c) \/ FinishRequest(c) PROVE ProcessInv'
  BY <1>19 DEF Client, Connect, Request, Disconnect, TrackRequest, FinishRequest
<1>20. ASSUME NEW c \in Conns, WakeWaiter(c) PROVE ProcessInv'
  BY <1>20 DEF WakeWaiter
<1>21. CASE Panic
  BY <1>21 DEF Panic
<1>22. CASE Idle \/ UNCHANGED vars
  BY <1>22 DEF Idle, vars
<1> QED
  BY <1>1, <1>2, <1>3, <1>4, <1>5, <1>6, <1>7, <1>8, <1>9, <1>10, <1>11, <1>12, <1>13,
     <1>14, <1>15, <1>16, <1>17, <1>18, <1>19, <1>20, <1>21, <1>22
  DEF Next, MainNext, SignalNext, ConsumerNext, Serve

-----------------------------------------------------------------------------
(* The drain.                                                              *)

DrainTypes ==
    /\ consumer \in {"none", "select", "close", "drain", "parked", "drained", "notify", "gone"}
    /\ conn \in [Conns -> {"none", "idle", "received", "handling", "waking", "dropped"}]
    /\ waiting \in BOOLEAN

\* The increment of an Add that panicked is never taken back.
Leaked == tracked = Cardinality(InFlight) + 1

\* The counter counts the requests in flight, and one leaked increment at most.
CountInv == tracked = Cardinality(InFlight) \/ (waiting /\ Leaked)

WaitInv == waiting <=> consumer = "parked"

\* One Done at most has seen zero, and only an Add that panicked changed it.
WakeInv ==
    /\ \A c \in Conns : conn[c] = "waking" => waiting /\ (tracked = 0 \/ Leaked)
    /\ \A c, d \in Conns : conn[c] = "waking" /\ conn[d] = "waking" => c = d

AwaitInv ==
    /\ awaited \subseteq InFlight
    /\ consumer \in {"drained", "notify", "gone"} => awaited = {}

DrainInv == DrainTypes /\ CountInv /\ WaitInv /\ WakeInv /\ AwaitInv

\* The requests in flight are finitely many, and none when they count zero.
LEMMA InFlightFinite ==
  /\ IsFiniteSet(InFlight) /\ Cardinality(InFlight) \in Nat
  /\ Cardinality(InFlight) <= Cardinality(Conns)
  /\ Cardinality(InFlight) = 0 => InFlight = {}
  BY ConnsAssumption, FS_Subset, FS_CardinalityType, FS_EmptySet DEF InFlight

\* No connection, an empty WaitGroup.
LEMMA InitDrainInv == Init => DrainInv
<1> SUFFICES ASSUME Init PROVE DrainInv
  OBVIOUS
<1>1. InFlight = {}
  BY DEF Init, InFlight
<1>2. Cardinality(InFlight) = 0
  BY <1>1, FS_EmptySet
<1> QED
  BY <1>1, <1>2 DEF Init, DrainInv, DrainTypes, CountInv, WaitInv, WakeInv, AwaitInv

\* A connection that stays out of "handling" leaves the requests in flight.
LEMMA SameInFlight ==
  ASSUME DrainTypes, NEW c \in Conns, NEW s, s # "handling", conn[c] # "handling",
         conn' = [conn EXCEPT ![c] = s]
  PROVE  InFlight' = InFlight
  BY DEF InFlight, DrainTypes

\* Each step keeps it.
LEMMA NextDrainInv == ProcessInv /\ DrainInv /\ [Next]_vars => DrainInv'
<1> SUFFICES ASSUME ProcessInv, DrainInv, [Next]_vars PROVE DrainInv'
  OBVIOUS
<1> USE InFlightFinite DEF DrainInv, DrainTypes, CountInv, WaitInv, WakeInv, AwaitInv, Leaked
<1>1. ASSUME UNCHANGED <<reqVars, consumer>> PROVE DrainInv'
  BY <1>1 DEF reqVars, InFlight
<1>2. CASE StartApi
  BY <1>2 DEF StartApi, Starting, reqVars, InFlight, ProcessInv, MainInv, Before
<1>3. CASE TakeStop \/ CloseListener \/ HaltConsumer \/ Exit
  <2>1. /\ UNCHANGED <<conn, tracked, waiting, awaited>>
        /\ \/ consumer \in {"select", "close"} /\ consumer' \in {"close", "drain"}
           \/ consumer \in {"drained", "notify"} /\ consumer' \in {"notify", "gone"}
    BY <1>3 DEF TakeStop, CloseListener, HaltConsumer, Exit, reqVars
  <2>2. InFlight' = InFlight
    BY <2>1 DEF InFlight
  <2> QED
    BY <2>1, <2>2
<1>4. CASE WaitInflight
  <2>1. InFlight' = InFlight /\ UNCHANGED <<conn, tracked>> /\ awaited' = InFlight
    BY <1>4 DEF WaitInflight, InFlight
  <2>2. CASE tracked = 0
    BY <1>4, <2>1, <2>2 DEF WaitInflight
  <2>3. CASE tracked # 0
    BY <1>4, <2>1, <2>3 DEF WaitInflight
  <2> QED
    BY <2>2, <2>3
<1>5. ASSUME NEW c \in Conns, Client(c) PROVE DrainInv'
  <2>1. InFlight' = InFlight
    BY <1>5, SameInFlight DEF Client, Connect, Request, Disconnect
  <2> QED
    BY <1>5, <2>1 DEF Client, Connect, Request, Disconnect, apiVars
<1>6. ASSUME NEW c \in Conns, TrackRequest(c) PROVE DrainInv'
  <2>1. /\ conn[c] = "received" /\ tracked' = tracked + 1
        /\ UNCHANGED <<waiting, awaited, consumer>>
    BY <1>6 DEF TrackRequest, apiVars
  <2>2. CASE waiting /\ tracked = 0
    <3>1. conn' = [conn EXCEPT ![c] = "dropped"]
      BY <1>6, <2>2 DEF TrackRequest
    <3>2. InFlight' = InFlight
      BY <2>1, <3>1, SameInFlight
    <3>3. Cardinality(InFlight) = 0
      BY <2>2
    <3> QED
      BY <2>1, <2>2, <3>1, <3>2, <3>3
  <2>3. CASE ~(waiting /\ tracked = 0)
    <3>1. conn' = [conn EXCEPT ![c] = "handling"]
      BY <1>6, <2>3 DEF TrackRequest
    <3>2. InFlight' = InFlight \cup {c} /\ c \notin InFlight
      BY <2>1, <3>1 DEF InFlight
    <3>3. Cardinality(InFlight') = Cardinality(InFlight) + 1
      BY <3>2, FS_AddElement
    <3> QED
      BY <2>1, <2>3, <3>1, <3>2, <3>3
  <2> QED
    BY <2>2, <2>3
<1>7. ASSUME NEW c \in Conns, FinishRequest(c) PROVE DrainInv'
  <2>1. /\ conn[c] = "handling" /\ tracked' = tracked - 1 /\ awaited' = awaited \ {c}
        /\ UNCHANGED <<waiting, consumer>>
        /\ conn' = [conn EXCEPT ![c] = IF waiting /\ tracked = 1 THEN "waking" ELSE "idle"]
    BY <1>7 DEF FinishRequest, apiVars
  <2>2. InFlight' = InFlight \ {c} /\ c \in InFlight
    BY <2>1 DEF InFlight
  <2>3. Cardinality(InFlight') = Cardinality(InFlight) - 1 /\ Cardinality(InFlight) # 0
    BY <2>2, FS_RemoveElement
  <2>4. DrainTypes' /\ CountInv' /\ WaitInv' /\ AwaitInv'
    BY <2>1, <2>2, <2>3
  <2>5. ASSUME NEW d \in Conns, conn'[d] = "waking"
        PROVE  waiting' /\ (tracked' = 0 \/ Leaked')
    <3>1. CASE d = c
      BY <2>1, <2>5, <3>1
    <3>2. CASE d # c
      BY <2>1, <2>3, <2>5, <3>2
    <3> QED
      BY <3>1, <3>2
  <2>6. ASSUME NEW d \in Conns, conn[d] = "waking" PROVE ~(waiting /\ tracked = 1)
    BY <2>3, <2>6
  <2> QED
    BY <2>1, <2>4, <2>5, <2>6
<1>8. ASSUME NEW c \in Conns, WakeWaiter(c) PROVE DrainInv'
  <2>1. conn[c] = "waking" /\ UNCHANGED <<tracked, awaited>>
    BY <1>8 DEF WakeWaiter
  <2>2. InFlight' = InFlight
    BY <1>8, <2>1, SameInFlight DEF WakeWaiter
  <2>3. CASE tracked = 0
    <3>1. /\ waiting' = FALSE /\ consumer' = "drained" /\ conn' = [conn EXCEPT ![c] = "idle"]
      BY <1>8, <2>3 DEF WakeWaiter
    <3>2. Cardinality(InFlight) = 0 /\ awaited = {}
      BY <2>3
    <3>3. \A d \in Conns : conn'[d] # "waking"
      BY <2>1, <3>1
    <3>4. DrainTypes' /\ WaitInv'
      BY <3>1
    <3> QED
      BY <2>1, <2>2, <2>3, <3>1, <3>2, <3>3, <3>4
  <2>4. CASE tracked # 0
    BY <1>8, <2>1, <2>2, <2>4 DEF WakeWaiter
  <2> QED
    BY <2>3, <2>4
<1>9. CASE UNCHANGED vars \/ Idle
  BY <1>1, <1>9 DEF vars, Idle, reqVars
<1>10. CASE BuildDriver \/ BuildServiceDriver \/ RegisterCleanup \/ StartFails \/ RegisterStop
            \/ ControlStop \/ ControlStopped \/ Signal \/ TornSnapshot \/ SignalNext \/ Panic
  BY <1>1, <1>10
  DEF BuildDriver, BuildServiceDriver, RegisterCleanup, StartFails, RegisterStop, ControlStop, ControlStopped,
      Signal, TornSnapshot, Panic, SignalNext, RunCleanup, RunStop, RunStopReturns, TasksDone, apiVars
<1> QED
  BY <1>2, <1>3, <1>4, <1>5, <1>6, <1>7, <1>8, <1>9, <1>10
  DEF Next, MainNext, ConsumerNext, Serve

-----------------------------------------------------------------------------
(* The theorems.                                                           *)

IInv == ProcessInv /\ DrainInv

\* The initial states have it.
LEMMA InitIInv == Init => IInv
  BY InitProcessInv, InitDrainInv DEF IInv

\* Every step keeps it: a connection wakes only a drain that is parked.
LEMMA NextIInv == IInv /\ [Next]_vars => IInv'
<1>1. DrainInv => \A c \in Conns : conn[c] = "waking" => consumer = "parked"
  BY DEF DrainInv, WakeInv, WaitInv
<1> QED
  BY <1>1, NextProcessInv, NextDrainInv DEF IInv

\* It implies the safety properties.
LEMMA IInvImplies == IInv => DrainIsComplete /\ StopIsNeverRefused /\ CleanExitRemovesHome
<1>1. IInv /\ Registered("Cleanup") => HasCleanup(tasks)
  BY DEF Registered, HasCleanup, IInv, ProcessInv, ProcessTypes, TaskLists
<1> QED
  BY <1>1 DEF IInv, ProcessInv, MainInv, StopInv, HomeInv, Before, DrainInv, AwaitInv,
              DrainIsComplete, StopIsNeverRefused, CleanExitRemovesHome

\* The inductive invariant holds throughout.
THEOREM Invariance == Spec => []IInv
  BY InitIInv, NextIInv, PTL DEF Spec

\* Types hold throughout, and the counter never exceeds the connections by two.
THEOREM TypeCorrectness == Spec => []TypeOK
<1>1. IInv => TypeOK
  <2> SUFFICES ASSUME IInv PROVE TypeOK
    OBVIOUS
  <2>1. \A list \in TaskLists : list \in Seq(Tasks)
    <3>1. /\ <<>> \in Seq(Tasks) /\ <<"Cleanup">> \in Seq(Tasks)
          /\ <<"Stop">> \in Seq(Tasks) /\ <<"Cleanup", "Stop">> \in Seq(Tasks)
      BY DEF Tasks
    <3> QED
      BY <3>1 DEF TaskLists
  <2>2. Cardinality(Conns) \in Nat
    BY ConnsAssumption, FS_CardinalityType
  <2>3. tracked \in 0..(Cardinality(Conns) + 1)
    BY <2>2, InFlightFinite DEF IInv, DrainInv, CountInv, Leaked
  <2>4. awaited \subseteq Conns
    BY DEF IInv, DrainInv, AwaitInv, InFlight
  <2> QED
    BY <2>1, <2>3, <2>4 DEF IInv, ProcessInv, ProcessTypes, DrainInv, DrainTypes, TypeOK
<1> QED
  BY <1>1, Invariance, PTL

\* Requests in flight when the drain begins are finished before Halted is set:
\* whichever of Wait and Done saw a zero counter, none was in flight then.
THEOREM DrainCompletes == Spec => []DrainIsComplete
  BY Invariance, IInvImplies, PTL

\* Stop is called once at most, between Start and the drain.
THEOREM StopIsAccepted == Spec => []StopIsNeverRefused
  BY Invariance, IInvImplies, PTL

\* A home directory whose removal is registered is removed before Stop lets main
\* exit, also if the signal comes between the two registrations.
THEOREM HomeIsRemoved == Spec => []CleanExitRemovesHome
  BY Invariance, IInvImplies, PTL

-----------------------------------------------------------------------------
(* Runner: a child is always the one v.command points to.                  *)

\* Whoever still has a process or a reaper is the current command.
InUseIsCurrent ==
    \A k \in Commands : process[k] # "none" \/ reaper[k] # "none" => command = k

\* What the reaper saw of its process, and the process of its reaper.
ReaperKnows ==
    \A k \in Commands :
        /\ reaper[k] = "waiting" => process[k] \in {"running", "exited"}
        /\ reaper[k] = "reaped" => process[k] = "reaped"

\* The runner starts the current command, which was never used before.
StartsFresh ==
    runner = "starting" =>
        /\ command \in Commands
        /\ process[command] = "none"
        /\ reaper[command] = "none"

RunnerInv == R!TypeOK /\ InUseIsCurrent /\ ReaperKnows /\ StartsFresh

\* The initial state: nothing runs, nothing is used.
LEMMA RunnerInit == R!Init => RunnerInv
  BY DEF R!Init, RunnerInv, R!TypeOK, InUseIsCurrent, ReaperKnows, StartsFresh

USE CommandsAssumption

\* Each step of runner, reaper, child and client keeps the invariant.
LEMMA RunnerStays == RunnerInv /\ [R!Next]_(R!vars) => RunnerInv'
<1> SUFFICES ASSUME RunnerInv, [R!Next]_(R!vars) PROVE RunnerInv'
  OBVIOUS
<1> USE DEF RunnerInv, R!TypeOK, InUseIsCurrent, ReaperKnows, StartsFresh
<1>1. ASSUME NEW c \in Callers, R!Activate(c) \/ R!TakeActivity(c) \/ R!Return(c) PROVE RunnerInv'
  BY <1>1 DEF R!Activate, R!TakeActivity, R!Return
<1>2. CASE R!CheckCommand
  BY <1>2 DEF R!CheckCommand, R!Fresh
<1>3. CASE R!StartProcess
  BY <1>3 DEF R!StartProcess
<1>4. CASE R!StartUnfound
  BY <1>4 DEF R!StartUnfound
<1>5. CASE R!StartFails
  BY <1>5 DEF R!StartFails
<1>6. CASE R!Keepalive
  BY <1>6 DEF R!Keepalive
<1>7. CASE R!Kill
  BY <1>7 DEF R!Kill, R!HasProcess
<1>8. CASE R!KillCrashes
  BY <1>8 DEF R!KillCrashes
<1>9. ASSUME NEW k \in Commands, R!Exit(k) PROVE RunnerInv'
  BY <1>9 DEF R!Exit
<1>10. ASSUME NEW k \in Commands, R!Wait(k) PROVE RunnerInv'
  BY <1>10 DEF R!Wait
<1>11. ASSUME NEW k \in Commands, R!Forget(k) PROVE RunnerInv'
  BY <1>11 DEF R!Forget
<1>12. CASE UNCHANGED R!vars
  BY <1>12 DEF R!vars
<1> QED
  BY <1>1, <1>2, <1>3, <1>4, <1>5, <1>6, <1>7, <1>8, <1>9, <1>10, <1>11, <1>12
  DEF R!Next, R!RunnerNext, R!Reaper

\* The inductive invariant holds throughout.
THEOREM RunnerInvariance == R!Spec => []RunnerInv
  BY RunnerInit, RunnerStays, PTL DEF R!Spec

\* Types hold throughout.
THEOREM RunnerTypes == R!Spec => []R!TypeOK
<1>1. RunnerInv => R!TypeOK
  BY DEF RunnerInv
<1> QED
  BY <1>1, RunnerInvariance, PTL

\* No child is ever out of the reach of the keepalive, and no second one is
\* started beside it.
THEOREM RunnerOwnsChildren == R!Spec => []R!ChildIsOwned
<1>1. RunnerInv => R!ChildIsOwned
  BY DEF RunnerInv, InUseIsCurrent, R!ChildIsOwned, R!Children
<1> QED
  BY <1>1, RunnerInvariance, PTL

\* The crash of the keepalive needs a command without a process, and then no
\* other command has one.
THEOREM RunnerCrashesWithoutProcess == R!Spec => R!CrashOnlyWithoutProcess
<1>1. RunnerInv /\ [R!Next]_(R!vars) =>
        [crashed' /\ ~crashed => \A k \in Commands : process[k] # "running"]_(R!vars)
  <2> SUFFICES ASSUME RunnerInv, R!Next, crashed', ~crashed, NEW k \in Commands
               PROVE process[k] # "running"
    BY DEF R!vars
  <2>1. R!KillCrashes
    BY DEF R!Next, R!RunnerNext, R!Reaper, R!CheckCommand, R!StartProcess, R!StartUnfound, R!StartFails,
        R!Keepalive, R!Kill, R!Activate, R!TakeActivity, R!Return, R!Exit, R!Wait, R!Forget
  <2>2. command = Nil \/ process[command] = "none"
    BY <2>1 DEF R!KillCrashes, R!HasProcess
  <2> QED
    BY <2>2 DEF RunnerInv, InUseIsCurrent
<1> QED
  BY <1>1, RunnerInvariance, PTL DEF R!Spec, R!CrashOnlyWithoutProcess

-----------------------------------------------------------------------------
(* The two together.                                                       *)

\* A process whose Runner met the nil pointer is gone.
CrashEndsProcess == crashed => ~Alive

\* Each step of the process is a step of the API or leaves it alone.
LEMMA StepOfApi == UtilityNext => [Next]_vars
<1> SUFFICES ASSUME UtilityNext PROVE [Next]_vars
  OBVIOUS
<1>1. CASE ApiStep
  BY <1>1 DEF ApiStep, Next
<1>2. ASSUME NEW c \in Conns, ServeOther(c) \/ Finish(c) \/ Client(c) PROVE [Next]_vars
  BY <1>2 DEF ServeOther, Finish, Serve, Next
<1>3. ASSUME NEW c \in Callers, CallVmrest(c) \/ TakeActivity(c) \/ VmrestReturns(c)
      PROVE  [Next]_vars
  BY <1>3 DEF CallVmrest, TakeActivity, VmrestReturns
<1>4. CASE RunnerStep \/ TimerFires
  BY <1>4 DEF RunnerStep, TimerFires
<1>5. CASE RunnerPanics
  BY <1>5 DEF RunnerPanics, Next
<1>6. ASSUME NEW k \in Commands, Reap(k) \/ ChildExits(k) PROVE [Next]_vars
  BY <1>6 DEF Reap, ChildExits
<1>7. CASE Idle
  BY <1>7 DEF Next
<1> QED
  BY <1>1, <1>2, <1>3, <1>4, <1>5, <1>6, <1>7 DEF UtilityNext

\* A Runner that has not met the nil pointer yet makes one of its own steps,
\* or none.
LEMMA StepOfRunner == CrashEndsProcess /\ UtilityNext => [R!Next]_(R!vars)
<1> SUFFICES ASSUME CrashEndsProcess, UtilityNext PROVE R!Next \/ UNCHANGED runnerVars
  BY DEF R!vars, runnerVars
<1> USE DEF CrashEndsProcess, R!Next, R!RunnerNext, R!Reaper
<1>1. CASE UNCHANGED runnerVars
  BY <1>1
<1>2. ASSUME NEW c \in Callers, CallVmrest(c) \/ TakeActivity(c) \/ VmrestReturns(c)
      PROVE  R!Next
  BY <1>2
  DEF CallVmrest, TakeActivity, VmrestReturns, R!Activate, R!TakeActivity, R!Return
<1>3. CASE RunnerStep
  BY <1>3
  DEF RunnerStep, R!CheckCommand, R!StartProcess, R!StartFails, R!StartUnfound, R!Kill, R!Fresh, R!HasProcess
<1>4. CASE TimerFires \/ RunnerPanics
  BY <1>4
  DEF TimerFires, RunnerPanics, Panic, R!Keepalive, R!KillCrashes, R!HasProcess
<1>5. ASSUME NEW k \in Commands, Reap(k) \/ ChildExits(k) PROVE R!Next
  <2>1. CASE Reap(k)
    BY <1>5, <2>1 DEF Reap, R!Reaper, R!Wait, R!Forget
  <2>2. CASE ChildExits(k)
    BY <1>5, <2>2 DEF ChildExits, R!Exit
  <2> QED
    BY <1>5, <2>1, <2>2
<1> QED
  BY <1>1, <1>2, <1>3, <1>4, <1>5
  DEF UtilityNext, ApiStep, ServeOther, Finish

\* Only the panic of Runner sets the flag, and it ends the process.
LEMMA CrashStep == CrashEndsProcess /\ [UtilityNext]_utilityVars => CrashEndsProcess'
<1> SUFFICES ASSUME CrashEndsProcess, [UtilityNext]_utilityVars PROVE CrashEndsProcess'
  OBVIOUS
<1> USE DEF CrashEndsProcess
<1>1. ~Alive /\ [Next]_vars => ~Alive'
  BY DEF Alive, Next, vars, MainNext, BuildDriver, BuildServiceDriver, RegisterCleanup, StartApi, StartFails,
         Starting, RegisterStop, ControlStop, ControlStopped, Signal, TornSnapshot, Registering, SignalNext,
         RunCleanup, RunStop, RunStopReturns, TasksDone, Running, ConsumerNext, TakeStop, CloseListener,
         WaitInflight, HaltConsumer, Exit, Serve, TrackRequest, FinishRequest, WakeWaiter, Client,
         Connect, Request, Disconnect, Panic, Idle, procVars
<1>2. CASE UNCHANGED utilityVars
  BY <1>2 DEF utilityVars, runnerVars, vars, Alive
<1>3. CASE UtilityNext
  <2>1. crashed => ~Alive'
    BY <1>1, <1>3, StepOfApi
  <2>2. crashed' = crashed \/ RunnerPanics
    BY <1>3
    DEF UtilityNext, ApiStep, ServeOther, Finish, runnerVars, CallVmrest, TakeActivity, VmrestReturns,
        RunnerStep, TimerFires, Reap, ChildExits, R!Activate, R!TakeActivity, R!Return, R!CheckCommand,
        R!StartProcess, R!StartFails, R!StartUnfound, R!Kill, R!Keepalive, R!Reaper, R!Wait, R!Forget, R!Exit
  <2>3. RunnerPanics => ~Alive'
    BY DEF RunnerPanics, Panic, Alive
  <2> QED
    BY <2>1, <2>2, <2>3
<1> QED
  BY <1>2, <1>3

\* A process without its nil-pointer flag never lost it: it starts without.
LEMMA CrashInvariance == UtilitySpec => []CrashEndsProcess
<1>1. UtilityInit => CrashEndsProcess
  BY DEF UtilityInit, R!Init, CrashEndsProcess
<1> QED
  BY <1>1, CrashStep, PTL DEF UtilitySpec

\* The process implements ApiLifecycle: what the handlers and Runner do is a
\* step of the API or none.
THEOREM ImplementsApi == UtilitySpec => Init /\ [][Next]_vars
<1>1. UtilityInit => Init
  BY DEF UtilityInit
<1>2. [UtilityNext]_utilityVars => [Next]_vars
  BY StepOfApi DEF utilityVars
<1> QED
  BY <1>1, <1>2, PTL DEF UtilitySpec

\* The process implements VmrestRunner: handlers that die with the process
\* only ever do less.
THEOREM ImplementsRunner == UtilitySpec => R!Init /\ [][R!Next]_(R!vars)
<1>1. UtilityInit => R!Init
  BY DEF UtilityInit
<1>2. CrashEndsProcess /\ [UtilityNext]_utilityVars => [R!Next]_(R!vars)
  <2>1. UNCHANGED utilityVars => UNCHANGED R!vars
    BY DEF utilityVars, runnerVars, R!vars
  <2> QED
    BY <2>1, StepOfRunner
<1> QED
  BY <1>1, <1>2, CrashInvariance, PTL DEF UtilitySpec

\* No shutdown of the process cuts off a request in flight at its drain, is
\* refused, or leaves a home behind whose removal was registered.
THEOREM ProcessSafety ==
  UtilitySpec => [](DrainIsComplete /\ StopIsNeverRefused /\ CleanExitRemovesHome)
  BY ImplementsApi, InitIInv, NextIInv, IInvImplies, PTL

\* No vmrest of the process is ever out of the reach of the keepalive.
THEOREM ChildrenAreOwned == UtilitySpec => []ChildIsOwned
<1>1. RunnerInv => ChildIsOwned
  BY DEF RunnerInv, InUseIsCurrent, ChildIsOwned, R!ChildIsOwned, R!Children
<1> QED
  BY <1>1, ImplementsRunner, RunnerInit, RunnerStays, CommandsAssumption, PTL

\* The nil pointer that ends the process is only met when no vmrest runs.
THEOREM CrashesWithoutProcess == UtilitySpec => CrashOnlyWithoutProcess
<1>1. ASSUME RunnerInv, [R!Next]_(R!vars), crashed', ~crashed, NEW k \in Commands
      PROVE  process[k] # "running"
  <2>1. R!KillCrashes
    BY <1>1 DEF R!vars, R!Next, R!RunnerNext, R!Reaper, R!CheckCommand, R!StartProcess, R!StartUnfound,
        R!StartFails, R!Keepalive, R!Kill, R!Activate, R!TakeActivity, R!Return, R!Exit, R!Wait, R!Forget
  <2>2. command = Nil \/ process[command] = "none"
    BY <2>1 DEF R!KillCrashes, R!HasProcess
  <2> QED BY <1>1, <2>2, CommandsAssumption DEF RunnerInv, InUseIsCurrent
<1>2. RunnerInv /\ [R!Next]_(R!vars) =>
        [crashed' /\ ~crashed => \A k \in Commands : process[k] # "running"]_(R!vars)
  BY <1>1
<1> QED
  BY <1>2, ImplementsRunner, RunnerInit, RunnerStays, CommandsAssumption, PTL
  DEF CrashOnlyWithoutProcess, R!CrashOnlyWithoutProcess
=============================================================================
