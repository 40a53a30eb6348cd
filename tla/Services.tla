------------------------------ MODULE Services ------------------------------
(***************************************************************************)
(* ServiceManager, the services it starts and stops, and the HTTP server   *)
(* that one of them runs.  ServiceManager has a thread of its own, and so  *)
(* has each AsyncService; a SyncService runs on the manager's.  What       *)
(* starts and stops a service is an event posted to one of these threads.  *)
(***************************************************************************)
EXTENDS Integers, Sequences

CONSTANTS
    Count,         \* services main adds, numbered in the order it adds them
    Async,         \* those that are an AsyncService
    Server,        \* HttpServerManager
    MayFail,       \* those whose OnStart may return false
    SocketMayFail, \* may the port be taken, or accept() fail?
    MaxRequests,   \* bound on the requests the server works on at a time
    Slow           \* those whose thread may work for more than 20 s on end

Service == 1 .. Count

ASSUME ServicesAssumption ==
    /\ Count \in Nat
    /\ Async \subseteq Service
    /\ Server \in Async
    /\ MayFail \subseteq Service
    /\ SocketMayFail \in BOOLEAN
    /\ MaxRequests \in Nat
    /\ Slow \subseteq Async

VARIABLES
    \* ServiceManager and its thread
    tasks,       \* "load" and "unload" posted and not yet begun
    manager,     \* what its thread is doing
    at,          \* the service the loop of onLoad or onUnload is at
    failed,      \* `exit' of onLoad
    semp,        \* available() of the semaphore of onLoad
    loaded,      \* signalLoaded was emitted
    unloaded,    \* signalUnloaded was emitted
    gaveUp,      \* services whose thread wait(20000) did not see end
    \* the services
    state,       \* IService::State
    thread,      \* what each AsyncService's thread is doing
    quit,        \* QThread::quit() was called
    \* HttpServerManager
    startServer, \* onStartServer is posted
    closed,      \* the socket the server listens on was closed
    requests     \* requests the threads of the pool work on

managerVars == <<tasks, manager, at, failed, semp, loaded, unloaded, gaveUp>>
serverVars  == <<startServer, closed, requests>>
servicesVars == <<managerVars, state, thread, quit, serverVars>>

\* What may be waiting for the manager's thread.
Tasks == {<<>>, <<"load">>, <<"load", "unload">>, <<"unload">>}

\* The manager's thread: "acquire" waits for the semaphore of onLoad, "wait"
\* for the end of a thread in onUnload.
Points == {"idle", "load", "acquire", "unload", "wait"}

\* The thread of a service: "starting" runs OnStart, "failed" returns at once
\* because its event loop was told to quit before it began, "loop" waits for
\* events; that of HttpServerManager may be in m_server.listen().
Threads == {"off", "starting", "failed", "loop", "binding", "listening",
            "finished"}

\* Nothing loaded, as when a process starts.
Off ==
    /\ tasks = <<>>
    /\ manager = "idle"
    /\ at = 0
    /\ failed = FALSE
    /\ semp = 0
    /\ loaded = FALSE
    /\ unloaded = FALSE
    /\ gaveUp = {}
    /\ state = [s \in Service |-> "STOPPED"]
    /\ thread = [s \in Service |-> "off"]
    /\ quit = [s \in Service |-> FALSE]
    /\ startServer = FALSE
    /\ closed = FALSE
    /\ requests = 0

\* The process ends, and the threads of its services with it.
Reset ==
    /\ tasks' = <<>>
    /\ manager' = "idle"
    /\ at' = 0
    /\ failed' = FALSE
    /\ semp' = 0
    /\ loaded' = FALSE
    /\ unloaded' = FALSE
    /\ gaveUp' = {}
    /\ state' = [s \in Service |-> "STOPPED"]
    /\ thread' = [s \in Service |-> "off"]
    /\ quit' = [s \in Service |-> FALSE]
    /\ startServer' = FALSE
    /\ closed' = FALSE
    /\ requests' = 0

-----------------------------------------------------------------------------
(* Load: onLoad, on the manager's thread.                                  *)

Stay == UNCHANGED <<tasks, failed, semp, loaded, unloaded, gaveUp>>

BeginLoad ==
    /\ manager = "idle"
    /\ tasks # <<>> /\ Head(tasks) = "load"
    /\ tasks' = Tail(tasks)
    /\ manager' = "load"
    /\ at' = 1
    /\ failed' = FALSE
    /\ UNCHANGED <<semp, loaded, unloaded, gaveUp, state, thread, quit, serverVars>>

\* Variant: the manager does not wait until the service has started.
StartAsyncAndGoOn ==
    /\ manager = "load" /\ at \in Async
    /\ thread' = [thread EXCEPT ![at] = "starting"]
    /\ at' = at + 1
    /\ Stay
    /\ UNCHANGED <<manager, state, quit, serverVars>>

StartAsync ==
    /\ manager = "load" /\ at \in Async
    /\ thread' = [thread EXCEPT ![at] = "starting"]
    /\ manager' = "acquire"
    /\ Stay
    /\ UNCHANGED <<at, state, quit, serverVars>>

\* A SyncService starts on the manager's thread.
StartSync ==
    /\ manager = "load" /\ at \in Service \ Async
    /\ \/ /\ state' = [state EXCEPT ![at] = "RUNNING"]
          /\ at' = at + 1
          /\ UNCHANGED <<manager, failed>>
       \/ /\ at \in MayFail
          /\ failed' = TRUE
          /\ manager' = "idle"
          /\ at' = 0
          /\ UNCHANGED state
    /\ UNCHANGED <<tasks, semp, loaded, unloaded, gaveUp, thread, quit, serverVars>>

\* Variant: the slot of signalStarted releases the semaphore on success only.
StartedSilently(s) ==
    /\ thread[s] = "starting"
    /\ \/ /\ state' = [state EXCEPT ![s] = "RUNNING"]
          /\ thread' = [thread EXCEPT ![s] = "loop"]
          /\ semp' = semp + 1
          /\ UNCHANGED <<quit, failed>>
       \/ /\ s \in MayFail
          /\ thread' = [thread EXCEPT ![s] = "failed"]
          /\ quit' = [quit EXCEPT ![s] = TRUE]
          /\ failed' = TRUE
          /\ UNCHANGED <<state, semp>>
    /\ UNCHANGED <<tasks, manager, at, loaded, unloaded, gaveUp, serverVars>>

\* Variant: a failing service releases the semaphore and is not noticed.
StartedUnnoticed(s) ==
    /\ thread[s] = "starting"
    /\ \/ /\ state' = [state EXCEPT ![s] = "RUNNING"]
          /\ thread' = [thread EXCEPT ![s] = "loop"]
          /\ UNCHANGED quit
       \/ /\ s \in MayFail
          /\ thread' = [thread EXCEPT ![s] = "failed"]
          /\ quit' = [quit EXCEPT ![s] = TRUE]
          /\ UNCHANGED state
    /\ semp' = semp + 1
    /\ UNCHANGED <<tasks, manager, at, failed, loaded, unloaded, gaveUp, serverVars>>

\* The slot of QThread::started: OnStart, then signalStarted, whose slot runs
\* here and releases the semaphore.  m_rwLock is held all along.
Started(s) ==
    /\ thread[s] = "starting"
    /\ \/ /\ state' = [state EXCEPT ![s] = "RUNNING"]
          /\ thread' = [thread EXCEPT ![s] = "loop"]
          /\ UNCHANGED <<quit, failed>>
       \/ /\ s \in MayFail
          /\ thread' = [thread EXCEPT ![s] = "failed"]
          /\ quit' = [quit EXCEPT ![s] = TRUE]
          /\ failed' = TRUE
          /\ UNCHANGED state
    /\ semp' = semp + 1
    /\ UNCHANGED <<tasks, manager, at, loaded, unloaded, gaveUp, serverVars>>

\* The loop goes on, or breaks off after a service that failed.
Acquire ==
    /\ manager = "acquire"
    /\ semp > 0
    /\ semp' = semp - 1
    /\ manager' = IF failed THEN "idle" ELSE "load"
    /\ at' = IF failed THEN 0 ELSE at + 1
    /\ UNCHANGED <<tasks, failed, loaded, unloaded, gaveUp, state, thread, quit, serverVars>>

EndLoad ==
    /\ manager = "load" /\ at = Count + 1
    /\ loaded' = TRUE
    /\ manager' = "idle"
    /\ at' = 0
    /\ UNCHANGED <<tasks, failed, semp, unloaded, gaveUp, state, thread, quit, serverVars>>

-----------------------------------------------------------------------------
(* Unload: onUnload, on the manager's thread, from the last to the first.  *)

BeginUnload ==
    /\ manager = "idle"
    /\ tasks # <<>> /\ Head(tasks) = "unload"
    /\ tasks' = Tail(tasks)
    /\ manager' = "unload"
    /\ at' = Count
    /\ UNCHANGED <<failed, semp, loaded, unloaded, gaveUp, state, thread, quit, serverVars>>

SkipStopped ==
    /\ manager = "unload" /\ at \in Service /\ state[at] = "STOPPED"
    /\ at' = at - 1
    /\ Stay
    /\ UNCHANGED <<manager, state, thread, quit, serverVars>>

\* m_server.is_running()
IsRunning == thread[Server] = "listening"

\* OnBeforeStop, which stops a server that runs, then m_thread.quit().
StopAsync ==
    /\ manager = "unload" /\ at \in Async /\ state[at] = "RUNNING"
    /\ closed' = (closed \/ (at = Server /\ IsRunning))
    /\ quit' = [quit EXCEPT ![at] = TRUE]
    /\ manager' = "wait"
    /\ Stay
    /\ UNCHANGED <<at, state, thread, startServer, requests>>

StopSync ==
    /\ manager = "unload" /\ at \in Service \ Async /\ state[at] = "RUNNING"
    /\ state' = [state EXCEPT ![at] = "STOPPED"]
    /\ at' = at - 1
    /\ Stay
    /\ UNCHANGED <<manager, thread, quit, serverVars>>

\* Variant: the manager does not wait for the end of the thread.
WaitNot ==
    /\ manager = "wait"
    /\ manager' = "unload"
    /\ at' = at - 1
    /\ Stay
    /\ UNCHANGED <<state, thread, quit, serverVars>>

\* wait() sees the end of the thread ...
WaitEnds ==
    /\ manager = "wait" /\ thread[at] = "finished"
    /\ manager' = "unload"
    /\ at' = at - 1
    /\ Stay
    /\ UNCHANGED <<state, thread, quit, serverVars>>

\* ... or gives up after 20 s; the result is not looked at.  A thread is as
\* slow as that when nothing stops its server, or with its requests, or with
\* the image it copies or the files it removes.
WaitTimesOut ==
    /\ manager = "wait" /\ thread[at] # "finished"
    /\ \/ at = Server /\ IsRunning /\ ~closed
       \/ at \in Slow /\ (at = Server => requests > 0)
    /\ gaveUp' = gaveUp \cup {at}
    /\ manager' = "unload"
    /\ at' = at - 1
    /\ UNCHANGED <<tasks, failed, semp, loaded, unloaded, state, thread, quit, serverVars>>

EndUnload ==
    /\ manager = "unload" /\ at = 0
    /\ unloaded' = TRUE
    /\ manager' = "idle"
    /\ UNCHANGED <<tasks, at, failed, semp, loaded, gaveUp, state, thread, quit, serverVars>>

-----------------------------------------------------------------------------
(* The threads of the services.                                            *)

\* The event loop ends; the slot of QThread::finished stops the service.
Finished(s) ==
    /\ thread[s] = "failed" \/ (thread[s] = "loop" /\ quit[s])
    /\ thread' = [thread EXCEPT ![s] = "finished"]
    /\ state' = [state EXCEPT ![s] = "STOPPED"]
    /\ UNCHANGED <<managerVars, quit, serverVars>>

\* onStartServer, when the event loop gets to it: listen() binds the port ...
OnStartServer ==
    /\ thread[Server] = "loop"
    /\ startServer
    /\ startServer' = FALSE
    /\ thread' = [thread EXCEPT ![Server] = "binding"]
    /\ UNCHANGED <<managerVars, state, quit, closed, requests>>

\* ... and accepts connections, or returns false, which nobody looks at.
Listen ==
    /\ thread[Server] = "binding"
    /\ \/ thread' = [thread EXCEPT ![Server] = "listening"]
       \/ SocketMayFail /\ thread' = [thread EXCEPT ![Server] = "loop"]
    /\ UNCHANGED <<managerVars, state, quit, serverVars>>

AcceptRequest ==
    /\ IsRunning /\ ~closed
    /\ requests < MaxRequests
    /\ requests' = requests + 1
    /\ UNCHANGED <<managerVars, state, thread, quit, startServer, closed>>

\* accept() fails for good: the loop of listen() closes the socket and ends.
AcceptFails ==
    /\ SocketMayFail
    /\ IsRunning /\ ~closed
    /\ closed' = TRUE
    /\ UNCHANGED <<managerVars, state, thread, quit, startServer, requests>>

AnswerRequest ==
    /\ requests > 0
    /\ requests' = requests - 1
    /\ UNCHANGED <<managerVars, state, thread, quit, startServer, closed>>

\* Variant: listen() returns while requests are worked on.
StopListeningAtOnce ==
    /\ IsRunning /\ closed
    /\ thread' = [thread EXCEPT ![Server] = "loop"]
    /\ UNCHANGED <<managerVars, state, quit, serverVars>>

\* The pool's threads are joined before listen() returns.
StopListening ==
    /\ IsRunning /\ closed /\ requests = 0
    /\ thread' = [thread EXCEPT ![Server] = "loop"]
    /\ UNCHANGED <<managerVars, state, quit, serverVars>>

-----------------------------------------------------------------------------

ManagerStep ==
    \/ BeginLoad \/ StartAsync \/ StartSync \/ Acquire \/ EndLoad
    \/ BeginUnload \/ SkipStopped \/ StopAsync \/ StopSync
    \/ WaitEnds \/ WaitTimesOut

ServiceStep(s) == Started(s) \/ Finished(s)

ServerStep == OnStartServer \/ Listen \/ AnswerRequest \/ StopListening
=============================================================================
