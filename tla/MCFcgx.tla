------------------------------- MODULE MCFcgx --------------------------------
(* FcgxRequest with the scripts of Fcgx.cfg. *)
EXTENDS FcgxRequest

R(type, id, len, pad) == MakeHeader(type, id, len, pad) @@ [bad |-> FALSE]

BeginWith(id, role, keep) == R("BEGIN_REQUEST", id, BodyLen, 0) @@ [role |-> role, keep |-> keep]

BeginReq(keep) == BeginWith(1, "RESPONDER", keep)

Bad(r) == [r EXCEPT !.bad = TRUE]

(* Each record knows where it is in the script, so that every byte is one of a kind. *)
Numbered(s) ==
    [c \in DOMAIN s |-> [e \in DOMAIN s[c] |->
        [i \in DOMAIN s[c][e] |-> s[c][e][i] @@ [of |-> <<c, e>>, no |-> i]]]]

Environment == <<R("PARAMS", 1, 2, 1), R("PARAMS", 1, 0, 0)>>

Input == <<R("STDIN", 1, 2, 0), R("STDIN", 1, 1, 1), R("STDIN", 1, 0, 0)>>

Short == <<BeginReq(TRUE), R("PARAMS", 1, 0, 0), R("STDIN", 1, 0, 0)>>

Plain == <<BeginReq(FALSE)>> \o Environment \o <<R("STDIN", 1, 0, 0)>>

KeptScript == <<<<<<BeginReq(TRUE), R("PARAMS", 1, 0, 0)>> \o Input, Short>>>>

AgainScript == <<<<<<BeginReq(TRUE), R("PARAMS", 1, 1, 0), R("PARAMS", 1, 1, 1),
                     R("PARAMS", 1, 0, 0), R("STDIN", 1, 0, 0)>>>>>>

ValuesScript == <<<<<<R("GET_VALUES", 0, 2, 1)>>, <<R("GET_VALUES", 0, 2, 0)>>>>,
                  <<<<BeginReq(FALSE), R("PARAMS", 1, 0, 0), R("GET_VALUES", 0, 2, 0)>> \o Input>>>>

OthersScript == <<<<<<BeginReq(TRUE), BeginWith(2, "RESPONDER", FALSE), R("PARAMS", 2, 2, 1),
                     R("PARAMS", 1, 2, 0), R("PARAMS", 1, 0, 0), R("UNKNOWN", 0, 0, 0),
                     R("STDIN", 1, 0, 0)>>>>>>

BadScript == <<<<<<BeginReq(TRUE), Bad(R("PARAMS", 1, 1, 0)), R("PARAMS", 1, 0, 0)>>>>,
               <<<<BeginReq(TRUE), Bad(R("STDIN", 1, 1, 0))>>>>,
               <<<<Bad(BeginWith(1, "UNKNOWN", TRUE))>>>>,
               <<<<Bad(R("BEGIN_REQUEST", 1, BodyLen + 1, 0))>>>>,
               <<<<Bad(R("GET_VALUES", 0, 1, 1))>>>>, <<Plain>>>>

FilterScript == <<<<<<BeginWith(1, "FILTER", TRUE), R("PARAMS", 1, 0, 0), R("STDIN", 1, 1, 0),
                      R("STDIN", 1, 0, 0), R("DATA", 1, 1, 0), R("DATA", 1, 0, 0)>>>>>>

UpsetScript == <<<<<<BeginReq(TRUE), R("PARAMS", 1, 0, 0), R("PARAMS", 2, 0, 0),
                    R("STDIN", 1, 1, 1), R("STDIN", 1, 0, 0)>>>>,
                 <<<<BeginReq(TRUE), R("PARAMS", 1, 0, 0), R("UNKNOWN", 0, 1, 1),
                    R("STDIN", 1, 0, 0)>>>>>>

PipelinedScripts == {Numbered(<<<<Short, Short>>>>)}

AllScripts == {Numbered(KeptScript), Numbered(AgainScript), Numbered(ValuesScript),
               Numbered(OthersScript), Numbered(BadScript), Numbered(FilterScript),
               Numbered(UpsetScript)} \cup PipelinedScripts
==============================================================================
