-------------------------------- MODULE Tasks ---------------------------------
(***************************************************************************)
(* The CTaskPipe of tcpservice at its two levels: the way of the tasks     *)
(* through both directions, each taken for the Channel it promises to be   *)
(* (TaskPath), and one direction as the CPipeQueue that has to keep the    *)
(* promise (PipeQueue).  A behaviour here is one of either level.          *)
(***************************************************************************)
EXTENDS TaskPath, PipeQueue

VARIABLE onPath   \* the level that runs is TaskPath

tasksVars == <<onPath, vars, pipeVars>>

(* The level that does not run stays as it is: one such state is enough. *)
TasksInit ==
    /\ onPath \in BOOLEAN /\ Init /\ PipeInit
    /\ onPath => load = CHOOSE l \in Loads : TRUE

OnPath(A) == onPath /\ A /\ UNCHANGED <<onPath, pipeVars>>

InPipe(A) == ~onPath /\ A /\ UNCHANGED <<onPath, vars>>

TasksNext == OnPath(Next) \/ InPipe(PipeNext)

(* Both threads keep running their loops; the clients may stop at any time *)
(* and nobody is obliged to push.                                          *)
TasksFairness ==
    /\ WF_tasksVars(OnPath(Len(incoming) > Slack /\ WorkNotify))
    /\ WF_tasksVars(OnPath(Len(returning) > Slack /\ ReturnNotify))
    /\ WF_tasksVars(InPipe(OutputNotify)) /\ WF_tasksVars(InPipe(ReaderNext))

TasksSpec == TasksInit /\ [][TasksNext]_tasksVars /\ TasksFairness
-----------------------------------------------------------------------------
(* The types of both levels. *)
TasksTypeOK == TypeOK /\ PipeTypeOK
===============================================================================
