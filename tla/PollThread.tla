----------------------------- MODULE PollThread ------------------------------
(***************************************************************************)
(* CThreadBase and CPollThread: the life of a thread and the operations    *)
(* its owner has on it.  Start leaves m_thread_mutex locked, the thread    *)
(* parks on it at the end of PrepareBase, and RunningThread unlocks it.    *)
(* The condition that suspends a thread is left out: only the gateway asks *)
(* for it (m_is_use_signal).                                               *)
(***************************************************************************)
EXTENDS Integers, FiniteSets

CONSTANT Thread   \* the CPollThread objects

VARIABLES
    at,        \* where the thread is in ThreadFunction
    idle,      \* m_threadstate is not THREAD_EXIT
    joinable,  \* m_threadid is not 0
    stop,      \* m_stop
    locked,    \* m_thread_mutex is locked
    sigint     \* the SIGINT of Interrupt is on its way to the thread

threadVars == <<at, idle, joinable, stop, locked, sigint>>

Place == {"none", "prepare", "parked", "test", "epoll", "ending", "ended"}

(* In Run, where the thread uses the pool it inherits from CPollPool. *)
InRun == {"test", "epoll"}

Alive == Place \ {"none", "ended"}

ThreadTypeOK ==
    /\ at \in [Thread -> Place]
    /\ idle \in [Thread -> BOOLEAN] /\ joinable \in [Thread -> BOOLEAN]
    /\ stop \in [Thread -> BOOLEAN] /\ locked \in [Thread -> BOOLEAN]
    /\ sigint \in [Thread -> BOOLEAN]

ThreadInit ==
    /\ at = [t \in Thread |-> "none"]
    /\ idle = [t \in Thread |-> FALSE]
    /\ joinable = idle /\ stop = idle /\ locked = idle /\ sigint = idle

Go(t, from, to) == at[t] = from /\ at' = [at EXCEPT ![t] = to]

(* Start: InitializeBase locks the mutex, then pthread_create. *)
Start(t) ==
    /\ Go(t, "none", "prepare")
    /\ locked' = [locked EXCEPT ![t] = TRUE]
    /\ joinable' = [joinable EXCEPT ![t] = TRUE]
    /\ UNCHANGED <<idle, stop, sigint>>

(* InitializeBase or pthread_create fails: the mutex stays locked. *)
StartFails(t) ==
    /\ at[t] = "none"
    /\ locked' = [locked EXCEPT ![t] = TRUE]
    /\ UNCHANGED <<at, idle, joinable, stop, sigint>>

(* PrepareBase up to its Lock. *)
PrepareBase(t) ==
    /\ Go(t, "prepare", "parked")
    /\ idle' = [idle EXCEPT ![t] = TRUE]
    /\ UNCHANGED <<joinable, stop, locked, sigint>>

(* The Lock that ends PrepareBase. *)
Lock(t) ==
    /\ ~locked[t] /\ Go(t, "parked", "test")
    /\ locked' = [locked EXCEPT ![t] = TRUE]
    /\ UNCHANGED <<idle, joinable, stop, sigint>>

(* CPollThread::Run: the test of m_stop, and EpollProcess. *)
Test(t) ==
    /\ Go(t, "test", IF stop[t] THEN "ending" ELSE "epoll")
    /\ UNCHANGED <<idle, joinable, stop, locked, sigint>>

Epoll(t) ==
    /\ Go(t, "epoll", "test")
    /\ UNCHANGED <<idle, joinable, stop, locked, sigint>>

(* DestroyBase, and the thread ends. *)
DestroyBase(t) ==
    /\ Go(t, "ending", "ended")
    /\ idle' = [idle EXCEPT ![t] = FALSE]
    /\ UNCHANGED <<joinable, stop, locked, sigint>>

ThreadStep(t) ==
    PrepareBase(t) \/ Lock(t) \/ Test(t) \/ Epoll(t) \/ DestroyBase(t)

RunningThread(t) ==
    /\ locked' = [locked EXCEPT ![t] = FALSE]
    /\ UNCHANGED <<at, idle, joinable, stop, sigint>>

(* Interrupt answers at once: stopped before, or GetThreadID says 0. *)
InterruptSkips(t) == stop[t] \/ ~idle[t] \/ ~joinable[t]

(* Mutant: the mutex is not unlocked. *)
InterruptLeavesLocked(t) ==
    /\ ~InterruptSkips(t)
    /\ stop' = [stop EXCEPT ![t] = TRUE]
    /\ sigint' = [sigint EXCEPT ![t] = TRUE]
    /\ UNCHANGED <<at, idle, joinable, locked>>

(* CThreadBase::Interrupt up to its Join. *)
Interrupt(t) ==
    /\ ~InterruptSkips(t)
    /\ stop' = [stop EXCEPT ![t] = TRUE]
    /\ sigint' = [sigint EXCEPT ![t] = TRUE]
    /\ locked' = [locked EXCEPT ![t] = FALSE]
    /\ UNCHANGED <<at, idle, joinable>>

(* Mutant: Join does not wait. *)
JoinAtOnce(t) ==
    /\ joinable' = [joinable EXCEPT ![t] = FALSE]
    /\ UNCHANGED <<at, idle, stop, locked, sigint>>

Join(t) ==
    /\ at[t] = "ended"
    /\ joinable' = [joinable EXCEPT ![t] = FALSE]
    /\ UNCHANGED <<at, idle, stop, locked, sigint>>
==============================================================================
