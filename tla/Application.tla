----------------------------- MODULE Application ----------------------------
(***************************************************************************)
(* The life of the process: one instance at a time holds the shared        *)
(* memory, its GUI thread has the services loaded and the server started,  *)
(* and at the end has them unloaded and waits for it.  A process that      *)
(* crashes starts another one.  The services are those of the instance     *)
(* that holds the shared memory; a process that finds it held ends at once.*)
(***************************************************************************)
EXTENDS Services

CONSTANTS
    MaxLaunches,   \* bound on the processes a user starts
    MaxCrashes,    \* bound on the crashes
    RestartOnExit  \* GetConfig().exit.restart

ASSUME ApplicationAssumption ==
    /\ MaxLaunches \in Nat
    /\ MaxCrashes \in Nat
    /\ RestartOnExit \in BOOLEAN

VARIABLES
    gui,       \* what the GUI thread of the instance is doing; "none": no instance
    quitLoop,  \* quit() was called on the event loop of OnExit while it ran
    launching, \* processes started that have not yet asked for the memory
    launches, crashes,
    early      \* history: signalUnloaded came before the loop of OnExit ran

appVars == <<gui, quitLoop, launching, launches, crashes, early>>
vars == <<servicesVars, appVars>>

\* "posted", "connected", "exec": lines of OnExit; "crashed": the crash
\* handler has started the next process and this one is about to end.
GuiPoints == {"none", "running", "posted", "connected", "exec", "crashed"}

Init ==
    /\ Off
    /\ gui = "none"
    /\ quitLoop = FALSE
    /\ launching = 0
    /\ launches = 0
    /\ crashes = 0
    /\ early = FALSE

-----------------------------------------------------------------------------

\* A user starts the program.
Start ==
    /\ launches < MaxLaunches
    /\ launches' = launches + 1
    /\ launching' = launching + 1
    /\ UNCHANGED <<servicesVars, gui, quitLoop, crashes, early>>

\* Launch: the page that Init loads has the services loaded and the server
\* started; a process that cannot create the shared memory returns -1.
Launch ==
    /\ launching > 0
    /\ launching' = launching - 1
    /\ \/ /\ gui = "none"
          /\ gui' = "running"
          /\ tasks' = <<"load">>
          /\ startServer' = TRUE
          /\ UNCHANGED <<manager, at, failed, semp, loaded, unloaded, gaveUp,
                         state, thread, quit, closed, requests>>
       \/ /\ gui # "none"
          /\ UNCHANGED <<gui, servicesVars>>
    /\ UNCHANGED <<quitLoop, launches, crashes, early>>

\* OnExit posts onUnload, after the event loop of the program has ended.
OnExit ==
    /\ gui = "running"
    /\ tasks' = Append(tasks, "unload")
    /\ gui' = "posted"
    /\ UNCHANGED <<manager, at, failed, semp, loaded, unloaded, gaveUp, state,
                   thread, quit, serverVars, quitLoop, launching, launches,
                   crashes, early>>

\* Then it connects signalUnloaded ...
Connect ==
    /\ gui = "posted"
    /\ gui' = "connected"
    /\ UNCHANGED <<servicesVars, quitLoop, launching, launches, crashes, early>>

\* ... and runs an event loop of its own, which forgets a quit() called before.
Exec ==
    /\ gui = "connected"
    /\ gui' = "exec"
    /\ UNCHANGED <<servicesVars, quitLoop, launching, launches, crashes, early>>

\* Variant: the slot of signalUnloaded is not called.
UnloadedUnheard ==
    /\ EndUnload
    /\ early' = (early \/ gui \in {"posted", "connected"})
    /\ UNCHANGED <<gui, quitLoop, launching, launches, crashes>>

\* signalUnloaded is emitted; its slot runs in the manager's thread.
Unloaded ==
    /\ EndUnload
    /\ quitLoop' = (quitLoop \/ gui = "exec")
    /\ early' = (early \/ gui \in {"posted", "connected"})
    /\ UNCHANGED <<gui, launching, launches, crashes>>

\* The process of the instance ends.
End ==
    /\ gui' = "none"
    /\ quitLoop' = FALSE
    /\ early' = FALSE
    /\ Reset

\* The rest of OnExit: it detaches from the shared memory, then starts the
\* next process where that is wanted.  The detach (Application.cpp:145) and the
\* end of the process are one step.
Exited ==
    /\ gui = "exec" /\ quitLoop
    /\ launching' = IF RestartOnExit THEN launching + 1 ELSE launching
    /\ End
    /\ UNCHANGED <<launches, crashes>>

\* ApplicationCrashHandler: the process still holds the shared memory when it
\* starts the next one.
Crash ==
    /\ crashes < MaxCrashes
    /\ gui \notin {"none", "crashed"}
    /\ crashes' = crashes + 1
    /\ gui' = "crashed"
    /\ launching' = launching + 1
    /\ UNCHANGED <<servicesVars, quitLoop, launches, early>>

Die ==
    /\ gui = "crashed"
    /\ End
    /\ UNCHANGED <<launching, launches, crashes>>

-----------------------------------------------------------------------------

Manager == Unloaded \/ (ManagerStep /\ UNCHANGED appVars)
ServiceThread(s) ==
    \/ ServiceStep(s) /\ UNCHANGED appVars
    \/ s = Server /\ ServerStep /\ UNCHANGED appVars
Gui == Connect \/ Exec \/ Exited \/ Die

Next ==
    \/ Start \/ Launch \/ OnExit \/ Crash
    \/ Manager
    \/ \E s \in Async : ServiceThread(s)
    \/ (AcceptRequest \/ AcceptFails) /\ UNCHANGED appVars
    \/ Gui

\* Each thread runs; nobody has to start or end the program, or to send a
\* request.
Fairness ==
    /\ WF_vars(Manager)
    /\ \A s \in Async : WF_vars(ServiceThread(s))
    /\ WF_vars(Gui)
    /\ WF_vars(Launch)

Spec == Init /\ [][Next]_vars /\ Fairness

-----------------------------------------------------------------------------

ManagerValuesOK ==
    /\ tasks \in Tasks
    /\ manager \in Points
    /\ at \in 0 .. Count + 1
    /\ failed \in BOOLEAN
    /\ semp \in Nat
    /\ loaded \in BOOLEAN
    /\ unloaded \in BOOLEAN
    /\ gaveUp \subseteq Async

ServiceValuesOK ==
    /\ state \in [Service -> {"RUNNING", "STOPPED"}]
    /\ thread \in [Service -> Threads]
    /\ quit \in [Service -> BOOLEAN]
    /\ startServer \in BOOLEAN
    /\ closed \in BOOLEAN
    /\ requests \in Nat

ProcessValuesOK ==
    /\ gui \in GuiPoints
    /\ quitLoop \in BOOLEAN
    /\ launching \in Nat
    /\ launches \in Nat
    /\ crashes \in Nat
    /\ early \in BOOLEAN

ValuesOK == ManagerValuesOK /\ ServiceValuesOK /\ ProcessValuesOK

Up == {"loop", "binding", "listening"}

\* What the thread of a service is doing, against its state and the manager.
ThreadOK(s) ==
    /\ state[s] = "RUNNING" <=> thread[s] \in Up
    /\ thread[s] = "starting" => manager = "acquire" /\ at = s /\ semp = 0
    /\ thread[s] \in {"binding", "listening"} => s = Server

\* The type of every variable, and what holds of the threads' control: one
\* service starts at a time, the one the manager waits for, and the services
\* that run are those whose thread has an event loop.
ApplicationTypeOK == ValuesOK /\ \A s \in Async : ThreadOK(s)

\* A service runs only while those added before it run: the order main asks
\* for (main.cpp:48), both when they start and when they stop
\* (ServiceManager.cpp:37,43), whichever fails and whenever the program ends.
\* A service whose thread onUnload gave up is the exception.
RunsInOrder ==
    \A i, j \in Service :
        i < j /\ state[j] = "RUNNING" /\ j \notin gaveUp => state[i] = "RUNNING"

\* A request is worked on only while the services that HttpServerManager
\* comes after, the databases and the settings, run; unless onUnload gave the
\* server up, which it does not look at (ServiceManager.cpp:149).
RequestsFindServices ==
    requests > 0 /\ Server \notin gaveUp =>
        \A s \in Service : s <= Server => state[s] = "RUNNING"

\* signalLoaded means that every service runs, and goes on running until it
\* is stopped; signalUnloaded means that every one has stopped or was given up
\* (ServiceManager.cpp:120,160).
SignalsAreTrue ==
    /\ loaded /\ ~unloaded /\ manager = "idle"
            => \A s \in Service : state[s] = "RUNNING"
    /\ unloaded => \A s \in Service \ gaveUp : state[s] = "STOPPED"

\* A load or an unload, once begun, comes to an end: no service keeps the
\* manager waiting for the semaphore or for its thread (ServiceManager.cpp:94,
\* 149).  The m_rwLock of a service is not in the model: GetState() of the
\* manager does not wait for it, as nothing that holds it waits for the manager.
ManagerIsFreeAgain == manager # "idle" ~> manager = "idle"

\* An exit ends, or the process dies, unless onUnload is done before OnExit
\* listens for it (Application.cpp:138-141): then "Exiting, please wait..."
\* stays.
ExitEnds == gui = "posted" ~> gui \in {"none", "crashed"} \/ early
=============================================================================
