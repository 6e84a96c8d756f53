-------------------------- MODULE MCHttpConnection --------------------------
(* HttpConnection for TLC: one request of each kind that the code tells apart. *)
EXTENDS HttpConnection

Req(version, headers, bytes, route, bad) ==
    [version |-> version, headers |-> headers, bytes |-> bytes, route |-> route, bad |-> bad]

MCRequests == {
    Req("1.1", <<"host">>, 0, "value", ""),
    Req("1.1", <<"host", "length">>, 2, "load", ""),
    Req("1.1", <<"host", "length", "upload">>, 2, "none", ""),
    Req("1.1", <<"host">>, 0, "file", ""),
    Req("1.1", <<"host", "length", "close">>, 0, "nofile", ""),
    Req("1.1", <<"host">>, 0, "session", ""),
    Req("1.1", <<>>, 0, "value", ""),
    Req("1.0", <<"keep">>, 0, "none", ""),
    Req("other", <<"host">>, 0, "value", ""),
    Req("1.1", <<"host">>, 0, "value", "line"),
    Req("1.1", <<"host">>, 0, "value", "header")}
============================================================================
