-------------------------- MODULE ApplicationProofs -------------------------
(***************************************************************************)
(* Theorems about Application.tla, for any number of services.             *)
(* LifeInv says where the manager is in a load or an unload, and what that *)
(* says of each service; it is inductive and gives the four properties.    *)
(***************************************************************************)
EXTENDS Application, SequenceTheorems, TLAPS

\* A service that neither was started nor told to stop.
Fresh(s) ==
    /\ state[s] = "STOPPED"
    /\ thread[s] = "off"
    /\ ~quit[s]

\* The services of a process that has not begun to load them.
Untouched ==
    /\ manager = "idle"
    /\ semp = 0
    /\ ~loaded /\ ~unloaded
    /\ gaveUp = {}
    /\ requests = 0
    /\ \A s \in Service : Fresh(s)

\* What waits for the manager: a load before anything was done, an unload once
\* the program ends.
TasksOK ==
    /\ tasks \in {<<"load">>, <<"load", "unload">>} => Untouched
    /\ gui = "none" => tasks = <<>> /\ Untouched
    /\ tasks \in {<<"load", "unload">>, <<"unload">>} => gui \notin {"none", "running"}

\* The services before `at' run, those after it are untouched; the one the
\* manager waits for has not been told to stop unless it failed.
LoadOK ==
    /\ manager \in {"load", "acquire"} =>
        /\ ~loaded /\ ~unloaded
        /\ gaveUp = {}
        /\ \A s \in Service : s < at => state[s] = "RUNNING"
        /\ \A s \in Service : s > at => Fresh(s)
    /\ manager = "load" => /\ at >= 1
                           /\ ~failed
                           /\ at \in Service => Fresh(at)
    /\ manager = "acquire" => /\ at \in Async
                              /\ failed \in BOOLEAN
                              /\ semp \in {0, 1}
                              /\ semp = 1 /\ ~failed => state[at] = "RUNNING"
                              /\ thread[at] = "starting" => ~quit[at] /\ ~failed
    /\ manager # "acquire" => semp = 0

\* The services after `at' have stopped or were given up.
UnloadOK ==
    /\ manager \in {"unload", "wait"} =>
        /\ ~unloaded
        /\ tasks = <<>>
        /\ gui \notin {"none", "running"}
        /\ at <= Count
        /\ \A s \in Service : s > at => state[s] = "STOPPED" \/ s \in gaveUp
    /\ manager = "wait" => at \in Async
    /\ unloaded => /\ manager = "idle"
                   /\ tasks = <<>>
                   /\ gui # "running"
                   /\ \A s \in Service : state[s] = "STOPPED" \/ s \in gaveUp
    /\ gaveUp # {} => manager \in {"unload", "wait"} \/ unloaded

\* A service that runs was not told to stop, unless the manager waits for it or
\* gave it up; the services after one that was given up do not run, or were
\* given up before it.
QuitOK ==
    /\ \A s \in Async : quit[s] /\ state[s] = "RUNNING" =>
                            s \in gaveUp \/ (manager = "wait" /\ at = s)
    /\ \A s \in gaveUp : \A j \in Service :
            j > s => state[j] = "STOPPED" \/ j \in gaveUp

\* Requests are worked on by the server's thread while it listens.
RequestsOK == requests > 0 => thread[Server] = "listening"

LoadedOK ==
    loaded /\ ~unloaded /\ manager = "idle" =>
        \A s \in Service : state[s] = "RUNNING"

LifeInv ==
    /\ ApplicationTypeOK
    /\ RunsInOrder
    /\ TasksOK
    /\ LoadOK
    /\ UnloadOK
    /\ QuitOK
    /\ RequestsOK
    /\ LoadedOK

-----------------------------------------------------------------------------
(* The queues of tasks there are.                                          *)

LEMMA AppendUnload == Append(<<"load">>, "unload") = <<"load", "unload">>
<1> DEFINE x == Append(<<"load">>, "unload")
           y == <<"load", "unload">>
<1>1. Len(x) = 2 /\ x[1] = "load" /\ x[2] = "unload" /\ x \in Seq({"load", "unload"})
  OBVIOUS
<1>2. Len(y) = 2 /\ y[1] = "load" /\ y[2] = "unload" /\ y \in Seq({"load", "unload"})
  OBVIOUS
<1>3. \A i \in 1 .. Len(x) : x[i] = y[i]
  BY <1>1, <1>2
<1> HIDE DEF x, y
<1>4. x = y
  BY <1>1, <1>2, <1>3, SeqEqual
<1> QED
  BY <1>4 DEF x, y

\* They are told apart, and what taking and posting a task makes of them.
LEMMA Queues ==
    /\ <<"load">> # <<>> /\ <<"unload">> # <<>> /\ <<"load", "unload">> # <<>>
    /\ <<"load">> # <<"unload">>
    /\ <<"load">> # <<"load", "unload">>
    /\ <<"unload">> # <<"load", "unload">>
    /\ Head(<<"load">>) = "load" /\ Tail(<<"load">>) = <<>>
    /\ Head(<<"unload">>) = "unload" /\ Tail(<<"unload">>) = <<>>
    /\ Head(<<"load", "unload">>) = "load"
    /\ Tail(<<"load", "unload">>) = <<"unload">>
    /\ Append(<<>>, "unload") = <<"unload">>
    /\ Append(<<"load">>, "unload") = <<"load", "unload">>
<1>1. /\ <<"load">> # <<>> /\ <<"unload">> # <<>> /\ <<"load", "unload">> # <<>>
      /\ <<"load">> # <<"unload">>
      /\ <<"load">> # <<"load", "unload">>
      /\ <<"unload">> # <<"load", "unload">>
  OBVIOUS
<1>2. Tail(<<"load">>) = <<>> /\ Tail(<<"unload">>) = <<>>
  OBVIOUS
<1>3. Tail(<<"load", "unload">>) = <<"unload">>
  OBVIOUS
<1>4. Append(<<>>, "unload") = <<"unload">>
  OBVIOUS
<1> QED
  BY <1>1, <1>2, <1>3, <1>4, AppendUnload

-----------------------------------------------------------------------------
(* Load.                                                                   *)

\* A load begins before anything was started.
LEMMA BeginLoadKeeps ==
    ASSUME LifeInv, BeginLoad, UNCHANGED appVars
    PROVE  LifeInv'
<1>0. /\ Untouched
      /\ gui # "none"
      /\ tasks' = <<>> \/ (tasks' = <<"unload">> /\ gui # "running")
      /\ manager' = "load" /\ at' = 1 /\ failed' = FALSE
      /\ UNCHANGED <<semp, loaded, unloaded, gaveUp, state, thread, quit, serverVars, appVars>>
  BY Queues DEF BeginLoad, LifeInv, ApplicationTypeOK, ValuesOK, ManagerValuesOK, Tasks, TasksOK
<1> USE ServicesAssumption DEF LifeInv, ApplicationTypeOK, ValuesOK,
        ManagerValuesOK, ServiceValuesOK, ProcessValuesOK, Stay,
        servicesVars, managerVars, serverVars, appVars
<1>1. ServiceValuesOK' /\ ProcessValuesOK'
  BY <1>0
<1>2. ManagerValuesOK'
  <2>1. tasks' \in Tasks
    BY <1>0 DEF Tasks
  <2>2. at' \in 0 .. Count + 1 /\ manager' \in Points
    BY <1>0 DEF Points
  <2> QED
    BY <1>0, <2>1, <2>2
<1>3. \A u \in Async : ThreadOK(u)'
  BY <1>0 DEF ThreadOK, Untouched
<1>4. TasksOK'
  BY <1>0, Queues DEF TasksOK
<1>5. LoadOK'
  BY <1>0 DEF LoadOK, Fresh, Untouched
<1>6. UnloadOK'
  BY <1>0, Queues DEF UnloadOK, Untouched
<1>7. QuitOK'
  BY <1>0 DEF QuitOK, Untouched
<1>8. RunsInOrder' /\ RequestsOK' /\ LoadedOK'
  BY <1>0 DEF RunsInOrder, RequestsOK, LoadedOK
<1> QED
  BY <1>1, <1>2, <1>3, <1>4, <1>5, <1>6, <1>7, <1>8

\* An AsyncService is started after those before it.
LEMMA StartAsyncKeeps ==
    ASSUME LifeInv, StartAsync, UNCHANGED appVars
    PROVE  LifeInv'
<1> USE ServicesAssumption DEF LifeInv, ApplicationTypeOK, ValuesOK,
        ManagerValuesOK, ServiceValuesOK, ProcessValuesOK, StartAsync, Stay,
        servicesVars, managerVars, serverVars, appVars
<1>1. ProcessValuesOK'
  OBVIOUS
<1>2. ManagerValuesOK'
  BY DEF Points
<1>3. ServiceValuesOK'
  BY DEF Threads
<1>4. \A u \in Async : ThreadOK(u)'
  BY DEF ThreadOK, Up, LoadOK, Fresh
<1>5. TasksOK'
  BY DEF TasksOK, Untouched
<1>6. LoadOK'
  BY DEF LoadOK, Fresh
<1>7. RequestsOK'
  BY DEF RequestsOK, LoadOK, Fresh
<1>8. RunsInOrder' /\ UnloadOK' /\ QuitOK' /\ LoadedOK'
  BY DEF RunsInOrder, UnloadOK, QuitOK, LoadedOK
<1> QED
  BY <1>1, <1>2, <1>3, <1>4, <1>5, <1>6, <1>7, <1>8

\* A SyncService starts or ends the load.
LEMMA StartSyncKeeps ==
    ASSUME LifeInv, StartSync, UNCHANGED appVars
    PROVE  LifeInv'
<1> USE ServicesAssumption DEF LifeInv, ApplicationTypeOK, ValuesOK,
        ManagerValuesOK, ServiceValuesOK, ProcessValuesOK, StartSync, Stay,
        servicesVars, managerVars, serverVars, appVars
<1>1. ServiceValuesOK' /\ ProcessValuesOK'
  OBVIOUS
<1>2. ManagerValuesOK'
  <2>1. at' \in 0 .. Count + 1
    BY DEF Service
  <2>2. manager' \in Points
    BY DEF Points
  <2>3. failed' \in BOOLEAN
    OBVIOUS
  <2> QED
    BY <2>1, <2>2, <2>3
<1>3. RunsInOrder'
  BY DEF RunsInOrder, LoadOK
<1>4. TasksOK'
  BY DEF TasksOK, Untouched
<1>5. LoadOK'
  <2>1. CASE failed'
    BY <2>1 DEF LoadOK
  <2>2. CASE ~failed'
    <3>1. state' = [state EXCEPT ![at] = "RUNNING"] /\ at' = at + 1
      BY <2>2
    <3>2. UNCHANGED <<manager, failed>>
      BY <2>2
    <3> QED
      BY <3>1, <3>2 DEF LoadOK, Fresh, Service
  <2> QED
    BY <2>1, <2>2
<1>6. QuitOK'
  BY DEF QuitOK, UnloadOK
<1>7. LoadedOK'
  BY DEF LoadedOK, LoadOK
<1>8. UnloadOK' /\ RequestsOK' /\ (\A u \in Async : ThreadOK(u)')
  BY DEF UnloadOK, RequestsOK, ThreadOK
<1> QED
  BY <1>1, <1>2, <1>3, <1>4, <1>5, <1>6, <1>7, <1>8

\* The service the manager waits for has started or failed.
LEMMA StartedKeeps ==
    ASSUME LifeInv, NEW s \in Async, Started(s), UNCHANGED appVars
    PROVE  LifeInv'
<1> USE ServicesAssumption DEF LifeInv, ApplicationTypeOK, ValuesOK,
        ManagerValuesOK, ServiceValuesOK, ProcessValuesOK, Started, Stay,
        servicesVars, managerVars, serverVars, appVars
<1>1. ProcessValuesOK'
  OBVIOUS
<1>2. ManagerValuesOK'
  <2>1. semp' \in Nat
    OBVIOUS
  <2>2. failed' \in BOOLEAN
    OBVIOUS
  <2> QED
    BY <2>1, <2>2
<1>3. ServiceValuesOK'
  BY DEF Threads
<1>4. \A u \in Async : ThreadOK(u)'
  BY DEF ThreadOK, Up
<1>5. RunsInOrder'
  BY DEF RunsInOrder, LoadOK, ThreadOK
<1>6. TasksOK'
  BY DEF TasksOK, Untouched, ThreadOK
<1>7. LoadOK'
  <2>1. manager = "acquire" /\ at = s /\ semp = 0 /\ ~quit[s] /\ ~failed
    BY DEF ThreadOK, LoadOK
  <2>2. \A u \in Service : u # s => Fresh(u)' = Fresh(u) /\ state'[u] = state[u]
    BY DEF Fresh
  <2>3. thread'[s] # "starting" /\ (failed' \/ state'[s] = "RUNNING")
    OBVIOUS
  <2>4. UNCHANGED <<manager, at, loaded, unloaded, gaveUp>> /\ semp' = 1
    BY <2>1
  <2>5. failed' \in BOOLEAN
    OBVIOUS
  <2> QED
    BY <2>1, <2>2, <2>3, <2>4, <2>5 DEF LoadOK
<1>8. UnloadOK'
  BY DEF UnloadOK, ThreadOK
<1>9. QuitOK'
  BY DEF QuitOK, LoadOK, ThreadOK, Up
<1>10. RequestsOK' /\ LoadedOK'
  BY DEF RequestsOK, LoadedOK
<1> QED
  BY <1>1, <1>2, <1>3, <1>4, <1>5, <1>6, <1>7, <1>8, <1>9, <1>10

\* The manager goes on, or breaks off.
LEMMA AcquireKeeps ==
    ASSUME LifeInv, Acquire, UNCHANGED appVars
    PROVE  LifeInv'
<1> USE ServicesAssumption DEF LifeInv, ApplicationTypeOK, ValuesOK,
        ManagerValuesOK, ServiceValuesOK, ProcessValuesOK, Acquire, Stay,
        servicesVars, managerVars, serverVars, appVars
<1>1. ServiceValuesOK' /\ ProcessValuesOK'
  OBVIOUS
<1>2. ManagerValuesOK'
  BY DEF Service, Points, LoadOK
<1>3. TasksOK'
  BY DEF TasksOK, Untouched
<1>4. LoadOK'
  BY DEF LoadOK, Fresh, Service
<1>5. LoadedOK'
  BY DEF LoadedOK, LoadOK
<1>6. RunsInOrder' /\ UnloadOK' /\ QuitOK' /\ RequestsOK' /\ (\A u \in Async
      : ThreadOK(u)')
  BY DEF RunsInOrder, UnloadOK, QuitOK, RequestsOK, ThreadOK
<1> QED
  BY <1>1, <1>2, <1>3, <1>4, <1>5, <1>6

\* All services have started.
LEMMA EndLoadKeeps ==
    ASSUME LifeInv, EndLoad, UNCHANGED appVars
    PROVE  LifeInv'
<1> USE ServicesAssumption DEF LifeInv, ApplicationTypeOK, ValuesOK,
        ManagerValuesOK, ServiceValuesOK, ProcessValuesOK, EndLoad, Stay,
        servicesVars, managerVars, serverVars, appVars
<1>1. ServiceValuesOK' /\ ProcessValuesOK'
  OBVIOUS
<1>2. ManagerValuesOK'
  BY DEF Points
<1>3. TasksOK'
  BY DEF TasksOK, Untouched
<1>4. LoadedOK'
  BY DEF LoadedOK, Service, LoadOK
<1>5. RunsInOrder' /\ LoadOK' /\ UnloadOK' /\ QuitOK' /\ RequestsOK' /\ (\A u
      \in Async : ThreadOK(u)')
  BY DEF RunsInOrder, LoadOK, UnloadOK, QuitOK, RequestsOK, ThreadOK
<1> QED
  BY <1>1, <1>2, <1>3, <1>4, <1>5

-----------------------------------------------------------------------------
(* Unload.                                                                 *)

\* An unload begins once the program ends.
LEMMA BeginUnloadKeeps ==
    ASSUME LifeInv, BeginUnload, UNCHANGED appVars
    PROVE  LifeInv'
<1>0. /\ gui \notin {"none", "running"}
      /\ manager = "idle"
      /\ tasks = <<"unload">> /\ tasks' = <<>> /\ manager' = "unload" /\ at' = Count
      /\ UNCHANGED <<failed, semp, loaded, unloaded, gaveUp, state, thread, quit, serverVars, appVars>>
  BY Queues DEF BeginUnload, LifeInv, ApplicationTypeOK, ValuesOK, ManagerValuesOK, Tasks, TasksOK
<1> USE ServicesAssumption DEF LifeInv, ApplicationTypeOK, ValuesOK,
        ManagerValuesOK, ServiceValuesOK, ProcessValuesOK, Stay,
        servicesVars, managerVars, serverVars, appVars
<1>1. ServiceValuesOK' /\ ProcessValuesOK'
  BY <1>0
<1>2. ManagerValuesOK'
  BY <1>0, Queues DEF Points, Tasks
<1>3. TasksOK'
  BY <1>0, Queues DEF TasksOK
<1>4. UnloadOK'
  BY <1>0, Queues DEF UnloadOK, Service
<1>5. RunsInOrder' /\ LoadOK' /\ QuitOK' /\ RequestsOK' /\ LoadedOK' /\ (\A u
      \in Async : ThreadOK(u)')
  BY <1>0 DEF RunsInOrder, LoadOK, QuitOK, RequestsOK, LoadedOK, ThreadOK
<1> QED
  BY <1>1, <1>2, <1>3, <1>4, <1>5

\* A service that does not run is passed over.
LEMMA SkipStoppedKeeps ==
    ASSUME LifeInv, SkipStopped, UNCHANGED appVars
    PROVE  LifeInv'
<1> USE ServicesAssumption DEF LifeInv, ApplicationTypeOK, ValuesOK,
        ManagerValuesOK, ServiceValuesOK, ProcessValuesOK, SkipStopped, Stay,
        servicesVars, managerVars, serverVars, appVars
<1>1. ServiceValuesOK' /\ ProcessValuesOK'
  OBVIOUS
<1>2. ManagerValuesOK'
  BY DEF UnloadOK
<1>3. TasksOK'
  BY DEF TasksOK, UnloadOK
<1>4. RunsInOrder' /\ LoadOK' /\ UnloadOK' /\ QuitOK' /\ RequestsOK' /\
      LoadedOK' /\ (\A u \in Async : ThreadOK(u)')
  BY DEF RunsInOrder, LoadOK, UnloadOK, QuitOK, RequestsOK, LoadedOK, ThreadOK
<1> QED
  BY <1>1, <1>2, <1>3, <1>4

\* A service is told to stop, after those that come later.
LEMMA StopAsyncKeeps ==
    ASSUME LifeInv, StopAsync, UNCHANGED appVars
    PROVE  LifeInv'
<1> USE ServicesAssumption DEF LifeInv, ApplicationTypeOK, ValuesOK,
        ManagerValuesOK, ServiceValuesOK, ProcessValuesOK, StopAsync, Stay,
        servicesVars, managerVars, serverVars, appVars
<1>1. ServiceValuesOK' /\ ProcessValuesOK'
  OBVIOUS
<1>2. ManagerValuesOK'
  BY DEF Points
<1>3. TasksOK'
  BY DEF TasksOK, UnloadOK
<1>4. RunsInOrder' /\ LoadOK' /\ UnloadOK' /\ QuitOK' /\ RequestsOK' /\
      LoadedOK' /\ (\A u \in Async : ThreadOK(u)')
  BY DEF RunsInOrder, LoadOK, UnloadOK, QuitOK, RequestsOK, LoadedOK, ThreadOK
<1> QED
  BY <1>1, <1>2, <1>3, <1>4

\* A SyncService stops at once.
LEMMA StopSyncKeeps ==
    ASSUME LifeInv, StopSync, UNCHANGED appVars
    PROVE  LifeInv'
<1> USE ServicesAssumption DEF LifeInv, ApplicationTypeOK, ValuesOK,
        ManagerValuesOK, ServiceValuesOK, ProcessValuesOK, StopSync, Stay,
        servicesVars, managerVars, serverVars, appVars
<1>1. ServiceValuesOK' /\ ProcessValuesOK'
  OBVIOUS
<1>2. ManagerValuesOK'
  BY DEF UnloadOK
<1>3. RunsInOrder'
  BY DEF RunsInOrder, UnloadOK
<1>4. TasksOK'
  BY DEF TasksOK, UnloadOK
<1>5. LoadOK' /\ UnloadOK' /\ QuitOK' /\ RequestsOK' /\ LoadedOK' /\ (\A u
      \in Async : ThreadOK(u)')
  BY DEF LoadOK, UnloadOK, QuitOK, RequestsOK, LoadedOK, ThreadOK
<1> QED
  BY <1>1, <1>2, <1>3, <1>4, <1>5

\* The thread of a service has ended.
LEMMA WaitEndsKeeps ==
    ASSUME LifeInv, WaitEnds, UNCHANGED appVars
    PROVE  LifeInv'
<1> USE ServicesAssumption DEF LifeInv, ApplicationTypeOK, ValuesOK,
        ManagerValuesOK, ServiceValuesOK, ProcessValuesOK, WaitEnds, Stay,
        servicesVars, managerVars, serverVars, appVars
<1>1. ServiceValuesOK' /\ ProcessValuesOK'
  OBVIOUS
<1>2. ManagerValuesOK'
  BY DEF Points, UnloadOK
<1>3. TasksOK'
  BY DEF TasksOK, UnloadOK
<1>4. UnloadOK'
  BY DEF UnloadOK, ThreadOK, Up
<1>5. QuitOK'
  BY DEF QuitOK, ThreadOK, Up
<1>6. RunsInOrder' /\ LoadOK' /\ RequestsOK' /\ LoadedOK' /\ (\A u \in Async
      : ThreadOK(u)')
  BY DEF RunsInOrder, LoadOK, RequestsOK, LoadedOK, ThreadOK
<1> QED
  BY <1>1, <1>2, <1>3, <1>4, <1>5, <1>6

\* The thread of a service is given up.
LEMMA WaitTimesOutKeeps ==
    ASSUME LifeInv, WaitTimesOut, UNCHANGED appVars
    PROVE  LifeInv'
<1>1. /\ manager = "wait" /\ manager' = "unload" /\ at' = at - 1
      /\ gaveUp' = gaveUp \cup {at}
      /\ UNCHANGED <<tasks, failed, semp, loaded, unloaded, state, thread, quit, serverVars>>
  BY DEF WaitTimesOut
<1> USE <1>1, ServicesAssumption DEF LifeInv, ApplicationTypeOK, ValuesOK,
        ManagerValuesOK, ServiceValuesOK, ProcessValuesOK, serverVars, appVars
<1>2. ServiceValuesOK' /\ ProcessValuesOK'
  OBVIOUS
<1>3. ManagerValuesOK'
  BY DEF Points, UnloadOK
<1>4. TasksOK'
  BY DEF TasksOK, UnloadOK
<1>5. UnloadOK'
  BY DEF UnloadOK, LoadOK
<1>6. QuitOK'
  BY DEF QuitOK, UnloadOK
<1>7. RunsInOrder' /\ LoadOK' /\ RequestsOK' /\ LoadedOK' /\ (\A u \in Async
      : ThreadOK(u)')
  BY DEF RunsInOrder, LoadOK, RequestsOK, LoadedOK, ThreadOK
<1> QED
  BY <1>2, <1>3, <1>4, <1>5, <1>6, <1>7

\* All services have stopped, or were given up.
LEMMA UnloadedKeeps ==
    ASSUME LifeInv, Unloaded
    PROVE  LifeInv'
<1> USE ServicesAssumption DEF LifeInv, ApplicationTypeOK, ValuesOK,
        ManagerValuesOK, ServiceValuesOK, ProcessValuesOK, Unloaded,
        EndUnload, Stay, servicesVars, managerVars, serverVars, appVars
<1>1. ServiceValuesOK' /\ ProcessValuesOK'
  OBVIOUS
<1>2. ManagerValuesOK'
  BY DEF Points
<1>3. TasksOK'
  BY DEF TasksOK, UnloadOK
<1>4. RunsInOrder' /\ LoadOK' /\ UnloadOK' /\ QuitOK' /\ RequestsOK' /\
      LoadedOK' /\ (\A u \in Async : ThreadOK(u)')
  BY DEF RunsInOrder, LoadOK, UnloadOK, QuitOK, RequestsOK, LoadedOK, ThreadOK
<1> QED
  BY <1>1, <1>2, <1>3, <1>4

-----------------------------------------------------------------------------
(* The services and the server.                                            *)

\* A thread ends that was told to, or that failed.
LEMMA FinishedKeeps ==
    ASSUME LifeInv, NEW s \in Async, Finished(s), UNCHANGED appVars
    PROVE  LifeInv'
<1> USE ServicesAssumption DEF LifeInv, ApplicationTypeOK, ValuesOK,
        ManagerValuesOK, ServiceValuesOK, ProcessValuesOK, Finished, Stay,
        servicesVars, managerVars, serverVars, appVars
<1>1. ManagerValuesOK' /\ ProcessValuesOK'
  OBVIOUS
<1>2. ServiceValuesOK'
  BY DEF Threads
<1>3. \A u \in Async : ThreadOK(u)'
  BY DEF ThreadOK, Up
<1>4. RunsInOrder'
  BY DEF RunsInOrder, UnloadOK, QuitOK, ThreadOK, Up
<1>5. TasksOK'
  BY DEF TasksOK, Untouched, Fresh
<1>6. LoadOK'
  BY DEF LoadOK, Fresh, ThreadOK, QuitOK, Up
<1>7. LoadedOK'
  BY DEF LoadedOK, UnloadOK, QuitOK, ThreadOK, Up
<1>8. UnloadOK' /\ QuitOK' /\ RequestsOK'
  BY DEF UnloadOK, QuitOK, RequestsOK
<1> QED
  BY <1>1, <1>2, <1>3, <1>4, <1>5, <1>6, <1>7, <1>8

\* The server's thread goes on to listen, or ceases to.
LEMMA ListenKeeps ==
    ASSUME LifeInv, OnStartServer \/ Listen \/ StopListening, UNCHANGED appVars
    PROVE  LifeInv'
<1> USE ServicesAssumption DEF LifeInv, ApplicationTypeOK, ValuesOK,
        ManagerValuesOK, ServiceValuesOK, ProcessValuesOK, OnStartServer,
        Listen, StopListening, IsRunning, Stay, servicesVars, managerVars,
        serverVars, appVars
<1>1. ManagerValuesOK' /\ ProcessValuesOK'
  OBVIOUS
<1>2. ServiceValuesOK'
  BY DEF Threads
<1>3. \A u \in Async : ThreadOK(u)'
  BY DEF ThreadOK, Up
<1>4. TasksOK'
  BY DEF TasksOK, Untouched, Fresh
<1>5. LoadOK'
  BY DEF LoadOK, Fresh
<1>6. RunsInOrder' /\ UnloadOK' /\ QuitOK' /\ RequestsOK' /\ LoadedOK'
  BY DEF RunsInOrder, UnloadOK, QuitOK, RequestsOK, LoadedOK
<1> QED
  BY <1>1, <1>2, <1>3, <1>4, <1>5, <1>6

\* A request is accepted or answered, or no more can be.
LEMMA RequestKeeps ==
    ASSUME LifeInv, AcceptRequest \/ AcceptFails \/ AnswerRequest, UNCHANGED appVars
    PROVE  LifeInv'
<1> USE ServicesAssumption DEF LifeInv, ApplicationTypeOK, ValuesOK,
        ManagerValuesOK, ServiceValuesOK, ProcessValuesOK, AcceptRequest,
        AcceptFails, AnswerRequest, IsRunning, Stay, servicesVars, managerVars,
        serverVars, appVars
<1>1. ManagerValuesOK' /\ ServiceValuesOK' /\ ProcessValuesOK'
  <2>1. ManagerValuesOK' /\ ProcessValuesOK'
    OBVIOUS
  <2>2. requests' \in Nat /\ closed' \in BOOLEAN
    <3>1. requests \in Nat /\ closed \in BOOLEAN
      OBVIOUS
    <3>2. CASE AcceptRequest \/ AnswerRequest
      BY ONLY <3>1, <3>2 DEF AcceptRequest, AnswerRequest
    <3>3. CASE AcceptFails
      BY ONLY <3>1, <3>3 DEF AcceptFails
    <3> QED
      BY <3>2, <3>3
  <2>3. UNCHANGED <<state, thread, quit, startServer>>
    OBVIOUS
  <2>4. ServiceValuesOK'
    BY ONLY LifeInv, ServicesAssumption, <2>2, <2>3 DEF LifeInv, ApplicationTypeOK, ValuesOK, ServiceValuesOK
  <2> QED
    BY <2>1, <2>4
<1>2. TasksOK'
  BY DEF TasksOK, Untouched, Fresh
<1>3. LoadOK'
  BY DEF LoadOK, Fresh
<1>4. RunsInOrder' /\ UnloadOK' /\ QuitOK' /\ RequestsOK' /\ LoadedOK' /\ (\A
      u \in Async : ThreadOK(u)')
  BY DEF RunsInOrder, UnloadOK, QuitOK, RequestsOK, LoadedOK, ThreadOK
<1> QED
  BY <1>1, <1>2, <1>3, <1>4

-----------------------------------------------------------------------------
(* The process.                                                            *)

\* A process gets the memory and asks for a load, or ends.
LEMMA LaunchKeeps ==
    ASSUME LifeInv, Launch
    PROVE  LifeInv'
<1> USE ServicesAssumption DEF LifeInv, ApplicationTypeOK, ValuesOK,
        ManagerValuesOK, ServiceValuesOK, ProcessValuesOK, Launch, Stay,
        servicesVars, managerVars, serverVars, appVars
<1>1. ServiceValuesOK'
  OBVIOUS
<1>2. ManagerValuesOK'
  BY Queues DEF Tasks
<1>3. ProcessValuesOK'
  BY DEF GuiPoints
<1>4. TasksOK'
  <2>1. CASE gui = "none"
    <3>1. Untouched /\ Untouched'
      BY <2>1 DEF TasksOK, Untouched, Fresh
    <3>2. tasks' \in {<<>>, <<"load">>}
      BY <2>1 DEF TasksOK
    <3> QED
      BY <2>1, <3>1, <3>2, Queues DEF TasksOK
  <2>2. CASE gui # "none"
    <3>1. UNCHANGED <<gui, servicesVars>>
      BY <2>2
    <3> QED
      BY <2>2, <3>1 DEF TasksOK, Untouched, Fresh
  <2> QED
    BY <2>1, <2>2
<1>5. LoadOK'
  BY DEF LoadOK, Fresh
<1>6. UnloadOK'
  BY Queues DEF UnloadOK, TasksOK, Untouched
<1>7. LoadedOK'
  <2>1. CASE gui = "none"
    BY <2>1 DEF LoadedOK, TasksOK, Untouched
  <2>2. CASE gui # "none"
    <3>1. UNCHANGED <<loaded, unloaded, manager, state>>
      BY <2>2
    <3> QED
      BY <3>1 DEF LoadedOK
  <2> QED
    BY <2>1, <2>2
<1>8. RunsInOrder' /\ QuitOK' /\ RequestsOK' /\ (\A u \in Async :
      ThreadOK(u)')
  BY DEF RunsInOrder, QuitOK, RequestsOK, ThreadOK
<1> QED
  BY <1>1, <1>2, <1>3, <1>4, <1>5, <1>6, <1>7, <1>8

\* An exit posts the unload.
LEMMA OnExitKeeps ==
    ASSUME LifeInv, OnExit
    PROVE  LifeInv'
<1> USE ServicesAssumption DEF LifeInv, ApplicationTypeOK, ValuesOK,
        ManagerValuesOK, ServiceValuesOK, ProcessValuesOK, OnExit, Stay,
        servicesVars, managerVars, serverVars, appVars
<1>1. ServiceValuesOK'
  OBVIOUS
<1>2. ManagerValuesOK'
  BY Queues DEF Tasks, TasksOK
<1>3. ProcessValuesOK'
  BY DEF GuiPoints
<1>4. TasksOK'
  BY Queues DEF TasksOK, Tasks, Untouched, Fresh
<1>5. LoadOK'
  BY DEF LoadOK, Fresh
<1>6. UnloadOK'
  BY Queues DEF UnloadOK
<1>7. RunsInOrder' /\ QuitOK' /\ RequestsOK' /\ LoadedOK' /\ (\A u \in Async
      : ThreadOK(u)')
  BY DEF RunsInOrder, QuitOK, RequestsOK, LoadedOK, ThreadOK
<1> QED
  BY <1>1, <1>2, <1>3, <1>4, <1>5, <1>6, <1>7

\* A process starts, goes on with its exit, or crashes.
LEMMA GuiKeeps ==
    ASSUME LifeInv, Start \/ Connect \/ Exec \/ Crash
    PROVE  LifeInv'
<1>0. /\ UNCHANGED servicesVars
      /\ gui' \in GuiPoints /\ quitLoop' \in BOOLEAN /\ launching' \in Nat
      /\ launches' \in Nat /\ crashes' \in Nat /\ early' \in BOOLEAN
      /\ gui' = gui \/ (gui # "none" /\ gui' \notin {"none", "running"})
  BY DEF LifeInv, ApplicationTypeOK, ValuesOK, ManagerValuesOK, ServiceValuesOK,
            ProcessValuesOK, Start, Connect, Exec, Crash, GuiPoints
<1> USE ServicesAssumption DEF LifeInv, ApplicationTypeOK, ValuesOK,
        ManagerValuesOK, ServiceValuesOK, ProcessValuesOK, Stay,
        servicesVars, managerVars, serverVars, appVars
<1>1. ManagerValuesOK' /\ ServiceValuesOK' /\ ProcessValuesOK'
  BY <1>0
<1>2. TasksOK'
  BY <1>0 DEF TasksOK, Untouched, Fresh
<1>3. LoadOK'
  BY <1>0 DEF LoadOK, Fresh
<1>4. RunsInOrder' /\ UnloadOK' /\ QuitOK' /\ RequestsOK' /\ LoadedOK' /\ (\A
      u \in Async : ThreadOK(u)')
  BY <1>0 DEF RunsInOrder, UnloadOK, QuitOK, RequestsOK, LoadedOK, ThreadOK
<1> QED
  BY <1>1, <1>2, <1>3, <1>4

\* A process ends, and all is as it was before it.
LEMMA EndKeeps ==
    ASSUME LifeInv, Exited \/ Die
    PROVE  LifeInv'
<1>0. /\ Reset
      /\ gui' = "none" /\ quitLoop' = FALSE /\ launching' \in Nat
      /\ launches' = launches /\ crashes' = crashes /\ early' = FALSE
  BY DEF LifeInv, ApplicationTypeOK, ValuesOK, ManagerValuesOK, ServiceValuesOK,
            ProcessValuesOK, Exited, Die, End
<1> USE DEF Reset
<1> USE ServicesAssumption DEF LifeInv, ApplicationTypeOK, ValuesOK,
        ManagerValuesOK, ServiceValuesOK, ProcessValuesOK, Stay,
        servicesVars, managerVars, serverVars, appVars
<1>1. ManagerValuesOK'
  <2>1. tasks' \in Tasks
    BY <1>0 DEF Tasks
  <2>2. at' \in 0 .. Count + 1 /\ semp' \in Nat /\ manager' \in Points
    BY <1>0 DEF Points
  <2> QED
    BY <1>0, <2>1, <2>2
<1>2. ServiceValuesOK'
  BY <1>0 DEF Threads
<1>3. ProcessValuesOK'
  BY <1>0 DEF GuiPoints
<1>4. \A u \in Async : ThreadOK(u)'
  BY <1>0 DEF ThreadOK, Up
<1>5. TasksOK'
  BY <1>0 DEF TasksOK, Untouched, Fresh
<1>6. RunsInOrder' /\ LoadOK' /\ UnloadOK' /\ QuitOK' /\ RequestsOK' /\
      LoadedOK'
  BY <1>0 DEF RunsInOrder, LoadOK, UnloadOK, QuitOK, RequestsOK, LoadedOK
<1> QED
  BY <1>1, <1>2, <1>3, <1>4, <1>5, <1>6

-----------------------------------------------------------------------------

LEMMA LifeInvInit == Init => LifeInv
<1> SUFFICES ASSUME Init PROVE LifeInv
  OBVIOUS
<1> USE ServicesAssumption DEF Init, Off
<1>1. ManagerValuesOK
  <2>1. tasks \in Tasks
    BY DEF Tasks
  <2>2. at \in 0 .. Count + 1 /\ semp \in Nat /\ manager \in Points
    BY DEF Points
  <2> QED
    BY <2>1, <2>2 DEF ManagerValuesOK
<1>6. ServiceValuesOK
  BY DEF ServiceValuesOK, Threads
<1>7. ProcessValuesOK
  BY DEF ProcessValuesOK, GuiPoints
<1>2. \A s \in Async : ThreadOK(s)
  BY DEF ThreadOK, Up
<1>3. RunsInOrder /\ TasksOK
  BY DEF RunsInOrder, TasksOK, Untouched, Fresh
<1>4. LoadOK /\ UnloadOK
  BY DEF LoadOK, UnloadOK
<1>5. QuitOK /\ RequestsOK /\ LoadedOK
  BY DEF QuitOK, RequestsOK, LoadedOK
<1> QED
  BY <1>1, <1>2, <1>3, <1>4, <1>5, <1>6, <1>7 DEF LifeInv, ApplicationTypeOK, ValuesOK

LEMMA LifeInvStutters == LifeInv /\ UNCHANGED vars => LifeInv'
  BY DEF vars, servicesVars, managerVars, serverVars, appVars, LifeInv,
         ApplicationTypeOK, ValuesOK, ManagerValuesOK, ServiceValuesOK, ProcessValuesOK, ThreadOK, RunsInOrder, TasksOK, Untouched,
         Fresh, LoadOK, UnloadOK, QuitOK, RequestsOK, LoadedOK

LEMMA LifeInvNext == LifeInv /\ [Next]_vars => LifeInv'
<1> SUFFICES ASSUME LifeInv, [Next]_vars PROVE LifeInv'
  OBVIOUS
<1>1. CASE Manager
  <2>1. CASE ManagerStep /\ UNCHANGED appVars
    BY <2>1, BeginLoadKeeps, StartAsyncKeeps, StartSyncKeeps, AcquireKeeps,
       EndLoadKeeps, BeginUnloadKeeps, SkipStoppedKeeps, StopAsyncKeeps,
       StopSyncKeeps, WaitEndsKeeps, WaitTimesOutKeeps DEF ManagerStep
  <2> QED
    BY <1>1, <2>1, UnloadedKeeps DEF Manager
<1>2. ASSUME NEW s \in Async, ServiceThread(s)
      PROVE  LifeInv'
  <2>1. CASE ServiceStep(s) /\ UNCHANGED appVars
    BY <2>1, StartedKeeps, FinishedKeeps DEF ServiceStep
  <2>2. CASE ServerStep /\ UNCHANGED appVars
    BY <2>2, ListenKeeps, RequestKeeps DEF ServerStep
  <2> QED
    BY <1>2, <2>1, <2>2 DEF ServiceThread
<1>3. CASE (AcceptRequest \/ AcceptFails) /\ UNCHANGED appVars
  BY <1>3, RequestKeeps
<1>4. CASE Start \/ Launch \/ OnExit \/ Crash
  BY <1>4, GuiKeeps, LaunchKeeps, OnExitKeeps
<1>5. CASE Gui
  BY <1>5, GuiKeeps, EndKeeps DEF Gui
<1>6. CASE UNCHANGED vars
  BY <1>6, LifeInvStutters
<1> QED
  BY <1>1, <1>2, <1>3, <1>4, <1>5, <1>6 DEF Next

LEMMA LifeInvHolds == Spec => []LifeInv
<1> QED
  BY LifeInvInit, LifeInvNext, PTL DEF Spec

-----------------------------------------------------------------------------

\* Every variable keeps its type, the manager waits for one service at a time,
\* and the services that run are those whose thread has an event loop.
THEOREM ApplicationTypeCorrect == Spec => []ApplicationTypeOK
<1>1. LifeInv => ApplicationTypeOK
  BY DEF LifeInv
<1> QED
  BY <1>1, LifeInvHolds, PTL

\* Whichever service fails and whenever the program ends, a service runs only
\* while those before it do (ServiceManager::onLoad, onUnload).
THEOREM ServicesRunInOrder == Spec => []RunsInOrder
<1>1. LifeInv => RunsInOrder
  BY DEF LifeInv
<1> QED
  BY <1>1, LifeInvHolds, PTL

\* Requests find the services the server comes after
\* (HttpServerManager::OnBeforeStop).
THEOREM RequestsHaveServices == Spec => []RequestsFindServices
<1>1. LifeInv => RequestsFindServices
  <2> SUFFICES ASSUME LifeInv, requests > 0, Server \notin gaveUp,
                      NEW s \in Service, s <= Server
               PROVE  state[s] = "RUNNING"
    BY DEF RequestsFindServices
  <2>1. Server \in Service
    BY ServicesAssumption
  <2>2. state[Server] = "RUNNING"
    BY ServicesAssumption DEF LifeInv, RequestsOK, ApplicationTypeOK, ThreadOK, Up
  <2>3. s = Server \/ s < Server
    BY <2>1 DEF Service
  <2> QED
    BY <2>1, <2>2, <2>3 DEF LifeInv, RunsInOrder
<1> QED
  BY <1>1, LifeInvHolds, PTL

\* What signalLoaded and signalUnloaded say is so.
THEOREM SignalsTellTheTruth == Spec => []SignalsAreTrue
<1>1. LifeInv => SignalsAreTrue
  BY DEF LifeInv, LoadedOK, UnloadOK, SignalsAreTrue
<1> QED
  BY <1>1, LifeInvHolds, PTL
=============================================================================
