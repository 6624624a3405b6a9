----------------------------- MODULE TcpService ------------------------------
(***************************************************************************)
(* main of tcpservice: it starts the listen thread and the work thread,    *)
(* fills their pools while they are parked, releases them, sleeps until a  *)
(* signal has set gs_stop, and takes everything down again.  A failure on  *)
(* the way up goes straight to Destroy.                                    *)
(*                                                                         *)
(* A signal to the process is handled by the main thread, which blocks     *)
(* none; the SIGINT of CThreadBase::Interrupt by the thread it is sent to. *)
(* A pool is the set of units in m_poll_units.                             *)
(***************************************************************************)
EXTENDS PollThread

CONSTANTS Listen, Work,  \* gs_listen_thread and gs_work_thread
          Port,          \* the port of the configuration
          MaxSignal      \* bound: signals sent to the process

ASSUME TcpServiceAssumption ==
    Thread = {Listen, Work} /\ Listen # Work /\ MaxSignal \in Nat

ASSUME PortAssumption == Port \in 0 .. 65535

VARIABLES
    main,       \* where main is
    inherited,  \* the port of the socket in the environment, NoSocket if none
    taken,      \* the listener uses the inherited socket
    units,      \* m_poll_units of each thread
    made,       \* the thread objects there are
    gs_stop, gs_delete_pidfile,
    pidfile,    \* the pid file exists
    skipped,    \* Interrupt answered for a thread that had not set its state yet
    signals     \* signals sent so far

mainVars == <<main, inherited, taken, units, made, gs_stop, gs_delete_pidfile,
              pidfile, skipped, signals>>

serviceVars == <<mainVars, threadVars>>

NoSocket == -1

(* const int16_t inherited_port *)
Int16(n) == IF n < 32768 THEN n ELSE n - 65536

(* Where main is, in the order of the code; Destroy of a failed start begins at "destroy". *)
Step == {"pidfile", "start listen", "start work", "work process", "listen server",
         "release listen", "release work", "test", "before pause", "pause",
         "destroy", "join listen", "uninit listen", "stop work", "join work",
         "uninit work", "delete", "done"}

MainInit ==
    /\ ThreadInit
    /\ main = "pidfile"
    /\ inherited \in {NoSocket, Port, Port - 1}
    /\ taken = FALSE
    /\ units = [t \in Thread |-> {}] /\ made = {}
    /\ gs_stop = FALSE /\ gs_delete_pidfile = FALSE /\ pidfile = FALSE
    /\ skipped = {} /\ signals = 0

At(from, to) == main = from /\ main' = to

CreatePidFile ==
    /\ \/ At("pidfile", "start listen") /\ pidfile' = TRUE
       \/ At("pidfile", "destroy") /\ UNCHANGED pidfile
    /\ UNCHANGED <<inherited, taken, units, made, gs_stop, gs_delete_pidfile, skipped, signals>>
    /\ UNCHANGED threadVars

(* InitThread: new CPollThread and Start. *)
StartThread(t, from, to) ==
    /\ \/ At(from, to) /\ Start(t)
       \/ At(from, "destroy") /\ StartFails(t)
    /\ made' = made \cup {t}
    /\ UNCHANGED <<inherited, taken, units, gs_stop, gs_delete_pidfile, pidfile, skipped, signals>>

StartListen == StartThread(Listen, "start listen", "start work")

StartWork == StartThread(Work, "start work", "work process")

(* BindDispatcher attaches both ends of both pipes. *)
InitWorkProcess ==
    /\ At("work process", "listen server")
    /\ units' = [units EXCEPT ![Listen] = @ \cup {"incoming writer", "return reader"},
                              ![Work] = @ \cup {"incoming reader", "return writer"}]
    /\ UNCHANGED <<inherited, taken, made, gs_stop, gs_delete_pidfile, pidfile, skipped, signals>>
    /\ UNCHANGED threadVars

GetInheritedSocket == inherited # NoSocket /\ Int16(inherited) = Port

(* The listener is attached, on the inherited socket or on its own; either *)
(* way CloseInheritedSocket closes the inherited one.                      *)
InitListenServer ==
    /\ \/ /\ At("listen server", "release listen")
          /\ units' = [units EXCEPT ![Listen] = @ \cup {"listener"}]
          /\ taken' = GetInheritedSocket
       \/ /\ At("listen server", "destroy")
          /\ UNCHANGED <<units, taken>>
    /\ UNCHANGED <<inherited, made, gs_stop, gs_delete_pidfile, pidfile, skipped, signals>>
    /\ UNCHANGED threadVars

Release ==
    /\ \/ At("release listen", "release work") /\ RunningThread(Listen)
       \/ At("release work", "test") /\ RunningThread(Work)
    /\ UNCHANGED <<inherited, taken, units, made, gs_stop, gs_delete_pidfile, pidfile, skipped, signals>>

(* DaemonWait: the test, and the pause that a signal handled in it ends. *)
DaemonWait ==
    /\ \/ At("test", IF gs_stop THEN "destroy" ELSE "before pause")
       \/ At("before pause", "pause")
    /\ UNCHANGED <<inherited, taken, units, made, gs_stop, gs_delete_pidfile, pidfile, skipped, signals>>
    /\ UNCHANGED threadVars

(* catch_signal in the main thread: reload only sets gs_reload, which nobody reads. *)
CatchSignal(stops) ==
    /\ main # "done" /\ signals < MaxSignal
    /\ signals' = signals + 1
    /\ gs_stop' = (gs_stop \/ stops)
    /\ gs_delete_pidfile' = stops
    /\ main' = IF main = "pause" THEN "test" ELSE main
    /\ UNCHANGED <<inherited, taken, units, made, pidfile, skipped>>
    /\ UNCHANGED threadVars

(* catch_signal in a thread that Interrupt has sent SIGINT to. *)
CatchInterrupt(t) ==
    /\ sigint[t] /\ at[t] \in Alive
    /\ sigint' = [sigint EXCEPT ![t] = FALSE]
    /\ gs_stop' = TRUE /\ gs_delete_pidfile' = TRUE
    /\ UNCHANGED <<main, inherited, taken, units, made, pidfile, skipped, signals>>
    /\ UNCHANGED <<at, idle, joinable, stop, locked>>

(* Destroy: Interrupt if there is such a thread, then its Join. *)
InterruptThread(t, from, join, next) ==
    /\ \/ /\ t \notin made \/ InterruptSkips(t)
          /\ At(from, next)
          /\ skipped' = skipped \cup ({t} \cap {u \in made : at[u] \in Alive})
          /\ UNCHANGED threadVars
       \/ /\ t \in made /\ At(from, join)
          /\ Interrupt(t) /\ UNCHANGED skipped
    /\ UNCHANGED <<inherited, taken, units, made, gs_stop, gs_delete_pidfile, pidfile, signals>>

JoinThread(t, from, to) ==
    /\ At(from, to) /\ Join(t)
    /\ UNCHANGED <<inherited, taken, units, made, gs_stop, gs_delete_pidfile, pidfile, skipped, signals>>

StopListen == \/ InterruptThread(Listen, "destroy", "join listen", "uninit listen")
              \/ JoinThread(Listen, "join listen", "uninit listen")

StopWork == \/ InterruptThread(Work, "stop work", "join work", "uninit work")
            \/ JoinThread(Work, "join work", "uninit work")

(* DetachUnit of a unit whose descriptor has been closed fails: epoll has  *)
(* forgotten it, and the unit stays in m_poll_units.                       *)
Detachable(t) == {u \in units[t] : ~(u = "listener" /\ taken)}

(* UnInit detaches one unit after the other until there is none. *)
UnInit(t, from, to) ==
    /\ \/ \E u \in Detachable(t) :
             /\ main = from /\ UNCHANGED main
             /\ units' = [units EXCEPT ![t] = @ \ {u}]
       \/ units[t] = {} /\ At(from, to) /\ UNCHANGED units
    /\ UNCHANGED <<inherited, taken, made, gs_stop, gs_delete_pidfile, pidfile, skipped, signals>>
    /\ UNCHANGED threadVars

UnInitListen == UnInit(Listen, "uninit listen", "stop work")

UnInitWork == UnInit(Work, "uninit work", "delete")

(* The thread objects go with the rest, then the pid file. *)
DeleteThreads ==
    /\ At("delete", "done")
    /\ made' = {}
    /\ pidfile' = (pidfile /\ ~gs_delete_pidfile)
    /\ UNCHANGED <<inherited, taken, units, gs_stop, gs_delete_pidfile, skipped, signals>>
    /\ UNCHANGED threadVars

MainStep == \/ CreatePidFile \/ StartListen \/ StartWork \/ InitWorkProcess
            \/ InitListenServer \/ Release \/ DaemonWait \/ StopListen \/ UnInitListen
            \/ StopWork \/ UnInitWork \/ DeleteThreads

(* When main has returned the process ends, and its threads with it. *)
RunThread(t) == main # "done" /\ ThreadStep(t) /\ UNCHANGED mainVars

ServiceNext == \/ MainStep
        \/ \E stops \in BOOLEAN : CatchSignal(stops)
        \/ \E t \in Thread : CatchInterrupt(t) \/ RunThread(t)

(* The kernel schedules every thread, and EpollProcess ends at its timeout. *)
ServiceFairness == WF_serviceVars(MainStep) /\ \A t \in Thread : WF_serviceVars(RunThread(t))

ServiceSpec == MainInit /\ [][ServiceNext]_serviceVars /\ ServiceFairness
-----------------------------------------------------------------------------
(* Where main changes the pool of a thread, or frees it. *)
UsesPool(t) == \/ main \in {"work process", "delete"}
               \/ t = Listen /\ main \in {"listen server", "uninit listen"}
               \/ t = Work /\ main = "uninit work"

(* Everything is well typed, and m_threadstate, which Interrupt trusts,    *)
(* says what it should: the thread is past PrepareBase and before the end. *)
ServiceTypeOK ==
    /\ ThreadTypeOK
    /\ \A t \in Thread : idle[t] <=> at[t] \in {"parked", "ending"} \cup InRun
    /\ main \in Step
    /\ made \subseteq Thread /\ skipped \subseteq Thread
    /\ gs_stop \in BOOLEAN /\ gs_delete_pidfile \in BOOLEAN
    /\ pidfile \in BOOLEAN /\ taken \in BOOLEAN

(* m_poll_units has no lock: main and the thread must not be in the pool   *)
(* at the same time, on the way up because the thread is parked, on the    *)
(* way down because it has been joined.  The exception is a thread that    *)
(* Interrupt took for ended because it had not set its state yet.          *)
PoolNotShared == \A t \in Thread \ skipped : UsesPool(t) => at[t] \notin InRun

(* A stop signal was handled after the test of gs_stop and before pause. *)
Overslept == main = "pause" /\ gs_stop

(* The listener's socket was closed behind its back. *)
SocketLost == taken /\ "listener" \in units[Listen] /\ main = "uninit listen"

(* A service told to stop, or failed to start, ends: no Join waits for a   *)
(* thread that is parked or asleep, whatever came before.  It stays only   *)
(* if the signal fell between test and pause, or if the listener had taken *)
(* over the inherited socket, which UnInit then cannot detach.             *)
StopEnds == (gs_stop \/ main = "destroy") ~> (main = "done" \/ Overslept \/ SocketLost)
==============================================================================
