------------------------------ MODULE MCCgiFcgi ------------------------------
(* CgiFcgi with the requests of CgiFcgi.cfg. *)
EXTENDS CgiFcgi

R(no, type, id, len, pad) == MakeHeader(type, id, len, pad) @@ [no |-> no]

End(no, len, pad, status) == R(no, "END_REQUEST", 1, len, pad) @@ [status |-> status]

Complete == "REQUEST_COMPLETE"

Good == <<R(1, "STDOUT", 1, 2, 0), R(2, "STDOUT", 1, 0, 0), End(3, BodyLen, 0, Complete)>>

Both == <<R(1, "STDERR", 1, 1, 1), R(2, "STDOUT", 1, 1, 1), End(3, BodyLen, 2, Complete)>>

BadAnswers ==
    {<<R(1, "STDOUT", 1, 1, 0), R(2, "STDOUT", 2, 1, 1)>>, <<R(1, "UNKNOWN_TYPE", 1, 2, 0)>>,
     <<End(1, 1, 1, Complete)>>, <<End(1, BodyLen, 0, "CANT_MPX_CONN")>>,
     <<End(1, BodyLen, 0, Complete), R(2, "STDOUT", 1, 1, 0)>>}

AllRequests == {<<0, 0, a>> : a \in BadAnswers \cup {Good, Both}}
               \cup {<<3, 2, Good>>, <<2, 3, Good>>, <<5, 5, <<>>>>}
==============================================================================
