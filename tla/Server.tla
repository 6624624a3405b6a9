-------------------------------- MODULE Server --------------------------------
(***************************************************************************)
(* The tcpservice process around its event loop: main with the two threads *)
(* it starts and takes down (TcpService), and what one connection makes of *)
(* the bytes that come and go (Codec).  A connection lives while main is   *)
(* asleep in DaemonWait and touches nothing of main's, so that a behaviour *)
(* here is one of either.                                                  *)
(***************************************************************************)
EXTENDS Codec, TcpService

VARIABLE connected   \* the part that runs is Codec

serverVars == <<connected, vars, serviceVars>>

(* The part that does not run stays as it is: one such state is enough. *)
ServerInit ==
    /\ connected \in BOOLEAN /\ Init /\ MainInit
    /\ IF connected THEN inherited = NoSocket ELSE stream = CHOOSE s \in Streams : TRUE

OnConnection == connected /\ Next /\ UNCHANGED <<connected, serviceVars>>

InProcess(A) == ~connected /\ A /\ UNCHANGED <<connected, vars>>

ServerNext == OnConnection \/ InProcess(ServiceNext)

(* The kernel schedules every thread, and EpollProcess ends at its timeout. *)
ServerFairness ==
    /\ WF_serverVars(InProcess(MainStep))
    /\ \A t \in Thread : WF_serverVars(InProcess(RunThread(t)))

ServerSpec == ServerInit /\ [][ServerNext]_serverVars /\ ServerFairness
-----------------------------------------------------------------------------
(* The types of both parts. *)
ServerTypeOK == TypeOK /\ ServiceTypeOK
===============================================================================
