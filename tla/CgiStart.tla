------------------------------ MODULE CgiStart ------------------------------
(***************************************************************************)
(* How several cgi-fcgi processes with the same connection name come to    *)
(* their application servers: a web server starts one for every request,   *)
(* each tries to connect, and one that finds nobody creates the listener,  *)
(* starts the servers and connects to them.  This is ParseArgs, main up to *)
(* the connection, and FCGI_Start of cgi-fcgi.c, with OS_FcgiConnect,      *)
(* OS_CreateLocalIpcFd and OS_SpawnChild of os_unix.c.                     *)
(*                                                                         *)
(* The listening socket a process creates is known by the process.         *)
(***************************************************************************)
EXTENDS Naturals, FiniteSets, SequencesExt

CONSTANTS Cgis,
          ArgLists,    \* the argument lists they are started with
          MaxServers,  \* the largest number in them
          MaxCrashes,  \* bound on the servers that crash
          None

ASSUME CgiStartAssumption == None \notin Cgis /\ MaxServers \in Nat \ {0} /\ MaxCrashes \in Nat

VARIABLES
    tcp,       \* the connection name is a port, and not a path
    option,    \* what ParseArgs makes of the arguments of each process
    name,      \* the socket the path names
    pc,
    listening, \* the sockets for which listen has been called
    open,      \* the processes that still have their listening socket
    server,    \* none, running or ended, for each process and number
    conn,      \* the socket each process is connected to
    accepted,  \* the server that has accepted it
    crashes

given == <<tcp, option>>

vars == <<given, name, pc, listening, open, server, conn, accepted, crashes>>

Numbers == 1 .. MaxServers
-----------------------------------------------------------------------------
(* ParseArgs, but for -f.  The name follows -connect, the first word that  *)
(* is not an option is the application, and a number may follow it.        *)
Parse(r, a) ==
    CASE r.naming               -> [r EXCEPT !.name = a, !.naming = FALSE]
      [] a = "-start"           -> [r EXCEPT !.doBind = FALSE]
      [] a = "-bind"            -> [r EXCEPT !.doStart = FALSE]
      [] a = "-connect"         -> [r EXCEPT !.naming = TRUE]
      [] a = "-unknown"         -> [r EXCEPT !.err = TRUE]
      [] OTHER ->
            CASE r.appPath = ""                  -> [r EXCEPT !.appPath = a]
              [] a \in DOMAIN r.digits /\ r.nServers = 0 ->
                    [r EXCEPT !.nServers = r.digits[a], !.err = @ \/ r.digits[a] = 0]
              [] OTHER                           -> [r EXCEPT !.err = TRUE]

ParseArgs(list) ==
    LET r == FoldLeft(Parse,
                 [doBind |-> TRUE, doStart |-> TRUE, name |-> "", appPath |-> "", nServers |-> 0,
                  naming |-> FALSE, err |-> FALSE, digits |-> [zero |-> 0, one |-> 1, two |-> 2]], list)
    IN  [doBind |-> r.doBind, doStart |-> r.doStart, appPath |-> r.appPath,
         nServers |-> IF r.nServers = 0 THEN 1 ELSE r.nServers,
         err |-> r.err \/ r.naming \/ (r.doStart /\ r.appPath = "") \/ r.name = ""]

(* Where main begins with these options. *)
Main(o) ==
    CASE o.err     -> "failed"
      [] o.doBind  -> "connect"
      [] o.doStart -> "create"
      [] OTHER     -> "failed"

(* A path may be left from servers that are gone: it names no socket that  *)
(* anybody has open.                                                       *)
Init ==
    /\ tcp \in BOOLEAN /\ option \in [Cgis -> {ParseArgs(list) : list \in ArgLists}]
    /\ name \in IF tcp THEN {None} ELSE {None, "stale"}
    /\ pc = [c \in Cgis |-> Main(option[c])]
    /\ listening = {} /\ open = {}
    /\ server = [c \in Cgis |-> [i \in Numbers |-> "none"]]
    /\ conn = [c \in Cgis |-> None]
    /\ accepted = [c \in Cgis |-> 0]
    /\ crashes = 0

Goes(c, to) == pc' = [pc EXCEPT ![c] = to]

Running(s) == {i \in Numbers : server[s][i] = "running"}

Started(s) == Cardinality({i \in Numbers : server[s][i] # "none"})

(* The sockets that listen: their process or a server has them open. *)
Live == {s \in listening : s \in open \/ Running(s) # {}}

(* Where a connect gets to. *)
Target == IF tcp THEN Live ELSE Live \cap {name}
-----------------------------------------------------------------------------
(* A process that cannot connect starts servers once, if it may. *)
Otherwise(c) == IF pc[c] = "connect" /\ option[c].doStart THEN "create" ELSE "failed"

OS_FcgiConnect(c) ==
    /\ pc[c] \in {"connect", "reconnect"}
    /\ \/ \E s \in Target : conn' = [conn EXCEPT ![c] = s] /\ Goes(c, "connected")
       \/ Target = {} /\ Goes(c, Otherwise(c)) /\ UNCHANGED conn
    /\ UNCHANGED <<given, name, listening, open, server, accepted, crashes>>

(* Mutant: a path that exists is left there. *)
UnlinkNever == UNCHANGED name

Unlink == name' = IF tcp THEN name ELSE None

(* OS_CreateLocalIpcFd: socket and unlink. *)
Create(c) ==
    /\ pc[c] = "create" /\ Goes(c, "bind") /\ Unlink
    /\ UNCHANGED <<given, listening, open, server, conn, accepted, crashes>>

(* The path must not exist, and no socket listen at the port. *)
Taken == IF tcp THEN Live # {} ELSE name # None

(* bind; what fails exits. *)
Bind(c) ==
    /\ pc[c] = "bind"
    /\ IF Taken THEN Goes(c, "failed") /\ UNCHANGED <<name, open>>
       ELSE Goes(c, "listen") /\ name' = (IF tcp THEN name ELSE c) /\ open' = open \cup {c}
    /\ UNCHANGED <<given, listening, server, conn, accepted, crashes>>

ListenOn(c) == listening' = listening \cup {c}

(* listen; two sockets may be bound to a port, but only one can listen. *)
Listen(c) ==
    /\ pc[c] = "listen"
    /\ IF tcp /\ Live # {} THEN Goes(c, "failed") /\ open' = open \ {c} /\ UNCHANGED listening
       ELSE Goes(c, "access") /\ ListenOn(c) /\ UNCHANGED open
    /\ UNCHANGED <<given, name, server, conn, accepted, crashes>>

(* FCGI_Start exits if the application cannot be executed: the socket is   *)
(* closed, and its path stays.                                             *)
Access(c) ==
    /\ pc[c] = "access"
    /\ IF option[c].appPath = "notExecutable" THEN Goes(c, "failed") /\ open' = open \ {c}
       ELSE Goes(c, "spawn") /\ UNCHANGED open
    /\ UNCHANGED <<given, name, listening, server, conn, accepted, crashes>>

MoreServers(c) == Started(c) < option[c].nServers

(* OS_SpawnChild: the child closes its input, gets the socket and becomes  *)
(* the application.                                                        *)
OS_SpawnChild(c) ==
    /\ pc[c] = "spawn" /\ MoreServers(c)
    /\ server' = [server EXCEPT ![c][Started(c) + 1] = "running"]
    /\ UNCHANGED <<given, name, pc, listening, open, conn, accepted, crashes>>

(* OS_Close of the listening socket, which the servers keep. *)
OS_Close(c) ==
    /\ pc[c] = "spawn" /\ ~MoreServers(c)
    /\ open' = open \ {c}
    /\ Goes(c, IF option[c].doBind THEN "reconnect" ELSE "done")
    /\ UNCHANGED <<given, name, listening, server, conn, accepted, crashes>>

(* The connection of a process is closed: nobody has the listening socket  *)
(* open any more, or the server it was accepted by has crashed.            *)
Reset(c) ==
    /\ pc[c] = "connected"
    /\ IF accepted[c] = 0 THEN conn[c] \notin Live ELSE accepted[c] \notin Running(conn[c])
    /\ Goes(c, "failed")
    /\ UNCHANGED <<given, name, listening, open, server, conn, accepted, crashes>>

Cgi(c) ==
    \/ OS_FcgiConnect(c) \/ Create(c) \/ Bind(c) \/ Listen(c) \/ Access(c)
    \/ OS_SpawnChild(c) \/ OS_Close(c) \/ Reset(c)
-----------------------------------------------------------------------------
(* The servers accept one connection at a time, answer, and may crash. *)
Accept(c) ==
    /\ pc[c] = "connected" /\ accepted[c] = 0
    /\ \E i \in Running(conn[c]) :
          /\ \A d \in Cgis : pc[d] = "connected" /\ conn[d] = conn[c] => accepted[d] # i
          /\ accepted' = [accepted EXCEPT ![c] = i]
    /\ UNCHANGED <<given, name, pc, listening, open, server, conn, crashes>>

Answer(c) ==
    /\ pc[c] = "connected" /\ accepted[c] \in Running(conn[c]) /\ Goes(c, "done")
    /\ UNCHANGED <<given, name, listening, open, server, conn, accepted, crashes>>

Crash ==
    /\ crashes < MaxCrashes /\ crashes' = crashes + 1
    /\ \E s \in Cgis : \E i \in Running(s) : server' = [server EXCEPT ![s][i] = "ended"]
    /\ UNCHANGED <<given, name, pc, listening, open, conn, accepted>>

Next == Crash \/ \E c \in Cgis : Cgi(c) \/ Accept(c) \/ Answer(c)

(* Every process runs; a server that has nothing to do accepts. *)
Spec ==
    /\ Init /\ [][Next]_vars
    /\ \A c \in Cgis : WF_vars(Cgi(c)) /\ WF_vars(Answer(c)) /\ SF_vars(Accept(c))
-----------------------------------------------------------------------------
Places == {"connect", "create", "bind", "listen", "access", "spawn", "reconnect",
           "connected", "done", "failed"}

(* What the variables range over. *)
TypeOK ==
    /\ name \in Cgis \cup {None, "stale"} /\ pc \in [Cgis -> Places]
    /\ listening \subseteq Cgis /\ open \subseteq Cgis
    /\ conn \in [Cgis -> Cgis \cup {None}] /\ accepted \in [Cgis -> 0 .. MaxServers]
    /\ \A c \in Cgis : Started(c) <= option[c].nServers

Plain(c) == ~option[c].err /\ option[c].doBind /\ option[c].doStart /\ option[c].appPath = "app"

(* However many processes start servers at once, removing each other's     *)
(* path and failing to bind, one of them is answered.                      *)
OneGetsThrough ==
    (\A c \in Cgis : Plain(c)) => <>(crashes > 0 \/ \E c \in Cgis : pc[c] = "done" /\ accepted[c] # 0)

=============================================================================
