----------------------------- MODULE MCCgiStart -----------------------------
(* The argument lists of the processes. *)
EXTENDS CgiStart

MCArgLists ==
    {<<"-connect", "name", "app">>,
     <<"-start", "-connect", "name", "app", "two">>,
     <<"-bind", "-connect", "name">>,
     <<"-connect", "name", "notExecutable">>}

=============================================================================
