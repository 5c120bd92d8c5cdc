----------------------------- MODULE MCHttpConn -----------------------------
(* Small instances of HttpConn for TLC. *)
EXTENDS HttpConn

Request(cgi, url, head, body) ==
    [cgi |-> cgi, url |-> url, bytes |-> head \o <<"r", "n">> \o body,
     body |-> Len(body), length |-> Len(body)]

Get == Request(FALSE, "page", <<"q", "r", "n", "k", "r", "n">>, <<>>)
\* The longest POST whose terminating zero is within the buffer.
Post == Request(TRUE, "/diagnose", <<"q", "r", "n", "l", "r", "n">>, <<"b", "b">>)
\* The same, its body a line end.
PostLines == [Post EXCEPT !.bytes = SubSeq(@, 1, Len(@) - 2) \o <<"r", "n">>]
BadLine == Request(FALSE, "page", <<"x", "r", "n">>, <<>>)
\* As long as the buffer, and longer.
GetFull == Request(FALSE, "page", <<"q", "r", "n", "h", "r", "n", "h", "r", "n">>, <<>>)
GetLong == Request(FALSE, "page",
                   <<"q", "r", "n", "h", "r", "n", "h", "r", "n", "h", "r", "n">>, <<>>)

\* A body shorter than Content-Length says, one of negative length,
\* and none: what these do to the requests after them.
Misstated == {[Request(TRUE, "2", <<"q", "r", "n", "l", "r", "n">>, <<"b">>)
                  EXCEPT !.length = n] : n \in {-2, 2}}
NoBody == Request(TRUE, "/diagnose", <<"q", "r", "n", "k", "r", "n">>, <<>>)

AllRequests == {Get, PostLines, BadLine, GetFull, GetLong, NoBody} \cup Misstated
Posts == {Post}

\* Without a redirection and a CSV, which the README lists.
PagesAndMessages == {"FILE_REQUEST", "BAD_REQUEST", "DIAGNOSE_REQUEST"}
Messages == {"DIAGNOSE_REQUEST"}
=============================================================================
