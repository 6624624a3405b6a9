------------------------------- MODULE Service -------------------------------
(***************************************************************************)
(* What tcpservice promises to the clients of its connections: every       *)
(* request of a connection is answered at most once, on that connection,   *)
(* in the order of the requests, and never after the connection is gone.   *)
(* Connections are numbered in the order in which they are accepted.       *)
(***************************************************************************)
EXTENDS Naturals, Sequences

CONSTANT Conn      \* the connections of a run: an initial segment of Nat \ {0}

VARIABLES open,      \* the connections that exist
          asked,     \* requests read from a connection
          answered   \* requests answered on the connection they came from

vars == <<open, asked, answered>>

Init == /\ open = {}
        /\ asked = [c \in Conn |-> 0]
        /\ answered = [c \in Conn |-> <<>>]

Open(c) == /\ c \notin open /\ asked[c] = 0
           /\ open' = open \cup {c}
           /\ UNCHANGED <<asked, answered>>

Ask(c) == /\ c \in open
          /\ asked' = [asked EXCEPT ![c] = @ + 1]
          /\ UNCHANGED <<open, answered>>

(* The next answer is to the oldest request that has none. *)
Answer(c) == /\ c \in open
             /\ Len(answered[c]) < asked[c]
             /\ answered' = [answered EXCEPT ![c] = Append(@, Len(@) + 1)]
             /\ UNCHANGED <<open, asked>>

Close(c) == /\ c \in open
            /\ open' = open \ {c}
            /\ UNCHANGED <<asked, answered>>

Next == \E c \in Conn : Open(c) \/ Ask(c) \/ Answer(c) \/ Close(c)

Spec == Init /\ [][Next]_vars
==============================================================================
