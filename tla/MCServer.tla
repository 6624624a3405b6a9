------------------------------ MODULE MCServer -------------------------------
(* Server with the streams of Server.cfg. *)
EXTENDS Server, TLC

Header(magic, cmd, length) ==
    [magic |-> ntohs(magic), cmd |-> ntohs(cmd), data_length |-> ntohl(length)]

Good == {Header(kProtocolMagic, 1, length) : length \in 1 .. 2}

Bad == {Header(kProtocolMagic + 1, 1, 1), Header(kProtocolMagic, CT_MIN, 1),
        Header(kProtocolMagic, CT_MAX, 0), Header(kProtocolMagic, CT_MAX - 1, 0)}

(* Up to three packets, each good, bad, or with an empty body. *)
MCStreams == {<<a, b, c>> : a \in Good, b \in Good \cup Bad, c \in Good \cup Bad}
                 \cup {<<a, b>> : a \in Bad, b \in Good}
==============================================================================
